---- MODULE Spec2Model ----
(***************************************************************************)
(* Cerberus EchoSense backend: the sensor fusion engine                    *)
(* (backend/ml_engine.py, SensorFusionEngine) and the asyncio ingestion /  *)
(* broadcast pipeline (backend/server.py).                                 *)
(*                                                                         *)
(* Time is counted in milliseconds scaled to small integers; time.time()   *)
(* is read once per fuse call and is taken to be non-decreasing.           *)
(* Confidence c stands for the float c / ConfScale.                        *)
(*                                                                         *)
(* SpecFusion    the fusion engine called with arbitrary inputs            *)
(* Spec          the server: UDP listeners, camera loop, broadcasts and    *)
(*               WebSocket endpoint handlers interleaved at their awaits   *)
(* FairSpec      Spec under the event loop's scheduling                    *)
(* SpecAdapters  the UDP listeners' parsing and the WiFi adapters' windows *)
(*               (exact rationals stand for the code's floats)             *)
(* SpecClient    Spec with the texts the WebSocket clients send            *)
(* SpecVision    the tracking ids CameraVisionModule assigns               *)
(* SpecConfidence the adapters fed every sample the listeners can parse    *)
(* SpecWire      serialize_detection_result and json.dumps on the events   *)
(*               the adapters, detect() and fuse build                     *)
(* SpecStartup   startup_event under any configuration and initialisation  *)
(*               failure, then the listeners and the camera task on the    *)
(*               event loop                                                *)
(* SpecLoop      the camera loop with the passes that raise or find no     *)
(*               frame, its broadcasts and the WebSocket connections       *)
(* FairLoop      SpecLoop under the event loop's scheduling                *)
(***************************************************************************)
EXTENDS Integers, Sequences, FiniteSets, TLC

\* ------------------------------------------------------------------ bounds
MaxTime == 3        \* the clock stops advancing here
HandoffDelay == 1   \* config['fusion']['handoff_delay_ms'], scaled
ConfScale == 1      \* confidence levels 0..ConfScale stand for 0.0 .. 1.0
NClients == 2       \* WebSocket connections that may be opened
MaxPub == 2         \* broadcast_detection calls in one run
MaxAsk == 1         \* texts the clients send in one run
WindowSize == 5          \* detection.rssi.window_size
VarianceThreshold == 16  \* detection.rssi.variance_threshold
CsiWindowSize == 2       \* detection.csi.window_size
MotionThresholdNum == 1  \* detection.csi.motion_threshold, as a fraction
MotionThresholdDen == 4
PacketWindow == 6        \* detection.wifi_monitor.packet_window
NSub == 2                \* amplitudes per fine-signal sample (64 in the code)
MaxSamples == 7          \* samples processed by the adapters in one run
MaxX == 3                \* bounding box corners lie in 0..MaxX x 0..MaxY
MaxY == 1
MatchDist == 2           \* the matching radius (100 in the code)
MaxDet == 4              \* _assign_tracking_id calls in one run

\* --------------------------------------------------------- DetectionResult
NoTime == -1        \* handoff_start = None

Times == 0..MaxTime
Confs == 0..ConfScale

\* TrackingSource values produced by the adapters the server feeds.
WifiSources == {"wifi_rssi", "wifi_csi"}

\* The absent event (Python None), kept record-shaped so that events compare.
NoEvent ==
    [timestamp |-> NoTime, source |-> "none", motion_detected |-> FALSE,
     confidence |-> 0, out_of_frame |-> FALSE, handoff_active |-> FALSE]

\* DetectionResult(timestamp, source, motion_detected, confidence) with the
\* dataclass defaults out_of_frame = False, handoff_active = False.
DetectionResult(ts, src, motion, conf) ==
    [timestamp |-> ts, source |-> src, motion_detected |-> motion,
     confidence |-> conf, out_of_frame |-> FALSE, handoff_active |-> FALSE]

IsNone(e) == e.source = "none"

\* ------------------------------------------------------------------- state
VARIABLES
    now,            \* the last value time.time() returned
    handoff_start,  \* SensorFusionEngine.handoff_start (NoTime = None)
    wifi,           \* the WiFi event object the caller of fuse holds
    cycle,          \* the last fuse call: its arguments and what it returned
    run_start,      \* history: first cycle of the current run of V-present,
                    \*          no-motion cycles (NoTime outside a run)
    first_nodet,    \* history: first V-present, no-motion cycle since the
                    \*          last vision-motion cycle (or since start)
    fired,          \* history: a handoff was returned since vision last
                    \*          reported motion (or since start)
    steady,         \* history: every cycle since first_nodet had V present
                    \*          without motion and W present with motion
    websocket_clients,  \* server.websocket_clients: list of connections
    conn,           \* per connection: "none", "open", "stalled" (the peer
                    \*   keeps the connection but reads no more: writes to
                    \*   it neither return nor raise) or "closed" (peer
                    \*   gone: writes raise)
    ep,             \* per connection: where websocket_endpoint stands: "idle",
                    \*   "status", "recv", "done", "failed" (the status write
                    \*   raised), "error" (list.remove raised ValueError) or
                    \*   "crashed" (json.dumps raised TypeError)
    inbox,          \* per connection: the text frames the peer received
    tasks,          \* the broadcast_detection calls, in initiation order
    latest_detection,  \* server.latest_detection: 0 = None, else the number
                    \*          of the broadcast whose event it holds
    cam_pc,         \* camera_processing_loop: "sleep", "publish" (inside
                    \*   its await of broadcast_detection) or "ended"
    joined,         \* history, per connection: how many broadcasts had been
                    \*          initiated when it registered
    asked,          \* the last text a client sent and what the handler did
    rssi_window,    \* ESP8266RSSIModule.window
    csi_window,     \* ESP32CSIModule.window
    packets,        \* WiFiMonitorModule.packets
    rssi_pushed,    \* history: every value process_rssi was called with
    csi_count,      \* history: how many times process_csi was called
    pkt_pushed,     \* history: every value process_packet appended
    rx,             \* the last listener or adapter call: what came in, what
                    \*          the adapter was given and what it returned
    tracked_objects,      \* CameraVisionModule.tracked_objects: the dict's
                    \*          items in insertion order
    tracking_id_counter,  \* CameraVisionModule.tracking_id_counter
    det,            \* the last _assign_tracking_id call
    dets,           \* history: centroid and id of every call so far
    booted,         \* startup_event has run
    config,         \* CONFIG['hardware'][s]['enabled'], per source s
    ml_engine,      \* server.ml_engine and the modules it holds
    listeners,      \* the sources whose UDP endpoint is open
    camera_task,    \* camera_processing_loop was started
    init_failed,    \* history: which initialisation failed, and how
    socket,         \* per listener: the datagrams the operating system
                    \*          holds until datagram_received is called
    vis_pc,         \* the camera task: "sleep", or "detect" while it is
                    \*          inside process_camera_frame
    handled,        \* history: the last datagram and what became of it
    published,      \* history: the sources that handed an event to
                    \*          broadcast_detection
    shut_down,      \* shutdown_event has run
    wire,           \* the last event serialized: the event, what json.dumps
                    \*          did with it and what a parser reads back
    loop            \* history: the last pass of camera_processing_loop

fusionVars ==
    <<now, handoff_start, wifi, cycle, run_start, first_nodet, steady, fired>>

serverVars ==
    <<websocket_clients, conn, ep, inbox, tasks, latest_detection, cam_pc,
      joined, asked>>

adapterVars ==
    <<rssi_window, csi_window, packets, rssi_pushed, csi_count, pkt_pushed, rx>>

visionVars == <<tracked_objects, tracking_id_counter, det, dets>>

startVars ==
    <<booted, config, ml_engine, listeners, camera_task, init_failed, socket,
      vis_pc, handled, published, shut_down>>

wireVars == <<wire>>

loopVars == <<loop>>

vars ==
    <<fusionVars, serverVars, adapterVars, visionVars, startVars, wireVars,
      loopVars>>

\* --------------------------------------------------- SensorFusionEngine.fuse
\* The outcome of fuse(cam, wifi) called at time t with handoff_start = hs:
\*   hs    the new handoff_start
\*   res   the returned object's fields
\*   from  which object was returned: "cam", "wifi" or "new" (the LOST event)
\*   wifi  the fields of the wifi argument object after the call (fuse
\*         assigns to it in place when it hands off)
\* (mutant) the vision event is returned without the FUSION re-tag
FuseMotionBranchNoRetag(cam, w) ==
    [hs |-> NoTime, res |-> cam, from |-> "cam", wifi |-> w]

\* lines 360-364: clear the timer, return cam re-tagged
FuseMotionBranch(cam, w) ==
    [hs |-> NoTime, res |-> [cam EXCEPT !.source = "fusion"], from |-> "cam",
     wifi |-> w]

\* (mutant) the delay test made non-strict
HandoffElapsedGe(t, hs) == (t - hs) >= HandoffDelay

\* line 368: (now - handoff_start) * 1000 > handoff_delay_ms
HandoffElapsed(t, hs) == (t - hs) > HandoffDelay

\* (mutant) a handoff clears the timer
FuseHandoffBranchReset(hs, w) ==
    LET res == [w EXCEPT !.handoff_active = TRUE, !.out_of_frame = TRUE,
                         !.source = "fusion"]
    IN  [hs |-> NoTime, res |-> res, from |-> "wifi", wifi |-> res]

\* (mutant) the handoff reports full confidence instead of the WiFi event's
FuseHandoffBranchBoost(hs, w) ==
    LET res == [w EXCEPT !.handoff_active = TRUE, !.out_of_frame = TRUE,
                         !.source = "fusion", !.confidence = ConfScale]
    IN  [hs |-> hs, res |-> res, from |-> "wifi", wifi |-> res]

\* lines 370-374: res = wifi, flagged and re-tagged in place
FuseHandoffBranch(hs, w) ==
    LET res == [w EXCEPT !.handoff_active = TRUE, !.out_of_frame = TRUE,
                         !.source = "fusion"]
    IN  [hs |-> hs, res |-> res, from |-> "wifi", wifi |-> res]

\* (mutant) the fall-through prefers the WiFi event: wifi or cam or LOST
FuseDefaultBranchWifiFirst(cam, w, hs, t) ==
    IF ~IsNone(w) THEN [hs |-> hs, res |-> w, from |-> "wifi", wifi |-> w]
    ELSE IF ~IsNone(cam) THEN [hs |-> hs, res |-> cam, from |-> "cam", wifi |-> w]
    ELSE [hs |-> hs, res |-> DetectionResult(t, "lost", FALSE, 0),
          from |-> "new", wifi |-> w]

\* line 376: cam or wifi or DetectionResult(now, LOST, False, 0.0)
FuseDefaultBranch(cam, w, hs, t) ==
    IF ~IsNone(cam) THEN [hs |-> hs, res |-> cam, from |-> "cam", wifi |-> w]
    ELSE IF ~IsNone(w) THEN [hs |-> hs, res |-> w, from |-> "wifi", wifi |-> w]
    ELSE [hs |-> hs, res |-> DetectionResult(t, "lost", FALSE, 0),
          from |-> "new", wifi |-> w]

\* (mutant) the timer restarts on every no-detection cycle
StartTimerRestart(cam, hs, t) ==
    IF ~IsNone(cam) /\ ~cam.motion_detected THEN t ELSE hs

\* line 367: if self.handoff_start is None: self.handoff_start = now
StartTimer(cam, hs, t) ==
    IF ~IsNone(cam) /\ ~cam.motion_detected /\ hs = NoTime THEN t ELSE hs

fuse(cam, w, hs, t) ==
    IF ~IsNone(cam) /\ cam.motion_detected
    THEN FuseMotionBranch(cam, w)
    ELSE LET hs1 == StartTimer(cam, hs, t)
         IN  IF /\ ~IsNone(cam) /\ ~cam.motion_detected
                /\ HandoffElapsed(t, hs1)
                /\ ~IsNone(w) /\ w.motion_detected
             THEN FuseHandoffBranch(hs1, w)
             ELSE FuseDefaultBranch(cam, w, hs1, t)

\* ------------------------------------------------------ fusion-engine cycles
NoCycle ==
    [called |-> FALSE, t |-> 0, cam |-> NoEvent, wifi |-> NoEvent,
     hs_before |-> NoTime, res |-> NoEvent, from |-> "none",
     wifi_after |-> NoEvent, latest_w |-> NoEvent, fired_before |-> FALSE,
     from_before |-> "none"]

FusionInit ==
    /\ now = 0
    /\ handoff_start = NoTime
    /\ wifi = NoEvent
    /\ cycle = NoCycle
    /\ run_start = NoTime
    /\ first_nodet = NoTime
    /\ steady = FALSE
    /\ fired = FALSE

\* What the vision adapter hands to a cycle: None (no frame), or a fresh
\* camera event: without boxes motion_detected is False and confidence 0.0,
\* with boxes motion_detected is True and confidence the mean box confidence.
CamInputs(t) ==
    {NoEvent, DetectionResult(t, "camera", FALSE, 0)}
        \cup {DetectionResult(t, "camera", TRUE, c) : c \in 1..ConfScale}

\* One call fuse(cam, w) at time t: the engine's state, the WiFi object (it is
\* written when w is that object and the handoff fires), the call log and the
\* history variables.
Cycle(t, cam, w) ==
    LET r == fuse(cam, w, handoff_start, t)
        nodet == ~IsNone(cam) /\ ~cam.motion_detected
        wpos == ~IsNone(w) /\ w.motion_detected
    IN  /\ now' = t
        /\ handoff_start' = r.hs
        /\ wifi' = IF IsNone(w) THEN wifi ELSE r.wifi
        /\ cycle' = [called |-> TRUE, t |-> t, cam |-> cam, wifi |-> w,
                     hs_before |-> handoff_start, res |-> r.res,
                     from |-> r.from, wifi_after |-> r.wifi,
                     latest_w |-> wifi, fired_before |-> fired,
                     from_before |-> cycle.from]
        /\ run_start' = IF nodet
                        THEN (IF run_start = NoTime THEN t ELSE run_start)
                        ELSE NoTime
        /\ first_nodet' = IF ~IsNone(cam) /\ cam.motion_detected THEN NoTime
                          ELSE IF nodet /\ first_nodet = NoTime THEN t
                          ELSE first_nodet
        /\ steady' = IF ~nodet THEN FALSE
                     ELSE IF first_nodet = NoTime THEN wpos
                     ELSE steady /\ wpos
        /\ fired' = IF ~IsNone(cam) /\ cam.motion_detected THEN FALSE
                    ELSE fired \/ (r.from = "wifi" /\ ~IsNone(cam))

\* ------------------------------------------------------------ server state
Clients == 1..NClients

\* No client text received yet.  n counts the texts received, latest is
\* latest_detection as the handler read it, sent whether it replied.
NoAsk ==
    [n |-> 0, c |-> 0, text |-> "", latest |-> 0, sent |-> FALSE,
     raised |-> FALSE]

ServerInit ==
    /\ websocket_clients = <<>>
    /\ conn = [c \in Clients |-> "none"]
    /\ ep = [c \in Clients |-> "idle"]
    /\ inbox = [c \in Clients |-> <<>>]
    /\ tasks = <<>>
    /\ latest_detection = 0
    /\ cam_pc = "sleep"
    /\ joined = [c \in Clients |-> 0]
    /\ asked = NoAsk

\* ------------------------------------------------------------ WiFi adapters
\* Numbers are exact rationals <<numerator, denominator>>, denominator > 0
\* (the code computes in floating point).  NaN is float('nan'); in a sample
\* it is written NaNMark.  Every comparison with NaN is false.
NaNMark == 99
NaN == <<1, 0>>

RatLt(a, b) == a[2] # 0 /\ b[2] # 0 /\ a[1] * b[2] < b[1] * a[2]
RatEq(a, b) == a[1] * b[2] = b[1] * a[2]

RECURSIVE SeqSum(_)
SeqSum(s) == IF s = <<>> THEN 0 ELSE Head(s) + SeqSum(Tail(s))

RECURSIVE SumSqDev(_, _, _)
\* sum over x in s of (n*x - total)^2
SumSqDev(s, n, total) ==
    IF s = <<>> THEN 0
    ELSE (n * Head(s) - total) * (n * Head(s) - total)
             + SumSqDev(Tail(s), n, total)

\* numpy.var(s), s not empty: the mean of the squared deviations from the
\* mean, sum((x - total/n)^2) / n = sum((n*x - total)^2) / n^3; NaN when an
\* element is NaN
NpVar(s) ==
    LET n == Len(s)
    IN  IF \E k \in 1..n : s[k] = NaNMark THEN NaN
        ELSE <<SumSqDev(s, n, SeqSum(s)), n * n * n>>

\* min(v / norm, 1.0): the first argument unless the second is less than it
MinWithOne(v, norm) ==
    IF RatLt(<<1, 1>>, <<v[1], v[2] * norm>>) THEN <<1, 1>>
    ELSE <<v[1], v[2] * norm>>

NoValue == <<0, 0>>

\* A DetectionResult as the WiFi adapters build it: the fields they set
\* (rssi, rssi_variance and csi_data are None unless given).
AdapterResult(src, motion, conf, rssi, variance, activity, csi) ==
    [source |-> src, motion_detected |-> motion, confidence |-> conf,
     rssi |-> rssi, rssi_variance |-> variance, activity |-> activity,
     csi_data |-> csi, out_of_frame |-> FALSE, handoff_active |-> FALSE]

\* (mutant) the window keeps growing
PushKeepAll(window, x, cap) == Append(window, x)

\* (mutant) the newest sample is dropped instead of the oldest
PushPopLast(window, x, cap) ==
    IF Len(window) + 1 > cap THEN window ELSE Append(window, x)

\* window.append(x); if len(window) > cap: window.pop(0)
Push(window, x, cap) ==
    IF Len(window) + 1 > cap THEN Tail(Append(window, x))
    ELSE Append(window, x)

MinSamples == 5     \* process_rssi: len(self.window) < 5
RssiNorm == 20      \* process_rssi: variance / 20.0

\* (mutant) the variance is computed one sample early
BelowMinEarly(window) == Len(window) < MinSamples - 1

BelowMin(window) == Len(window) < MinSamples

\* (mutant) motion also at the threshold
RssiMotionGe(variance) == ~RatLt(variance, <<VarianceThreshold, 1>>)

\* motion = variance > variance_threshold
RssiMotion(variance) == RatLt(<<VarianceThreshold, 1>>, variance)

\* ESP8266RSSIModule.process_rssi on the window as it stands: the new window
\* and the returned event.
process_rssi(window, rssi) ==
    LET w == Push(window, rssi, WindowSize)
    IN  IF BelowMin(w)
        THEN [window |-> w,
              res |-> AdapterResult("wifi_rssi", FALSE, <<0, 1>>, <<rssi, 1>>,
                                    NoValue, "UNKNOWN", <<>>)]
        ELSE LET variance == NpVar(w)
                 motion == RssiMotion(variance)
             IN  [window |-> w,
                  res |-> AdapterResult("wifi_rssi", motion,
                                        MinWithOne(variance, RssiNorm),
                                        <<rssi, 1>>, variance,
                                        IF motion THEN "WALKING" ELSE "STILL",
                                        <<>>)]

RECURSIVE Flatten(_)
Flatten(w) == IF w = <<>> THEN <<>> ELSE Head(w) \o Flatten(Tail(w))

\* (mutant) the variance is taken over every amplitude in the window
CsiVarianceOfWindow(window, csi_data) == NpVar(Flatten(window))

\* variance = np.var(csi_data): the current sample only
CsiVariance(window, csi_data) == NpVar(csi_data)

\* ESP32CSIModule.process_csi
process_csi(window, csi_data) ==
    LET w == Push(window, csi_data, CsiWindowSize)
        variance == CsiVariance(w, csi_data)
        motion == RatLt(<<MotionThresholdNum, MotionThresholdDen>>, variance)
    IN  [window |-> w,
         res |-> AdapterResult("wifi_csi", motion, MinWithOne(variance, 1),
                               NoValue, NoValue,
                               IF motion THEN "MOTION" ELSE "CLEAR",
                               csi_data)]

PktDefault == -100  \* data.get('rssi', -100)
PktMinLen == 5      \* variance only if len(self.packets) > 5
PktThreshold == 10  \* motion = variance > 10.0

\* WiFiMonitorModule.process_packet; data is <<v>> (a dict with 'rssi': v) or
\* <<>> (a dict without the key).  The confidence is the constant 0.5.
PktValue(data) == IF data = <<>> THEN PktDefault ELSE data[1]

\* (mutant) the variance is computed from five packets on
PktEnoughEarly(window) == Len(window) >= PktMinLen

\* len(self.packets) > 5
PktEnough(window) == Len(window) > PktMinLen

process_packet(window, data) ==
    LET w == Push(window, PktValue(data), PacketWindow)
        variance == IF PktEnough(w) THEN NpVar(w) ELSE <<0, 1>>
        motion == RatLt(<<PktThreshold, 1>>, variance)
    IN  [window |-> w,
         res |-> AdapterResult("wifi_monitor", motion, <<1, 2>>, NoValue,
                               NoValue, "UNKNOWN", <<>>)]

\* The last listener or adapter call; nothing received yet.
NoRx ==
    [src |-> "none", msg |-> <<>>, called |-> FALSE, sample |-> <<>>,
     before |-> <<>>, res |-> <<>>, task |-> FALSE]

AdapterInit ==
    /\ rssi_window = <<>>
    /\ csi_window = <<>>
    /\ packets = <<>>
    /\ rssi_pushed = <<>>
    /\ csi_count = 0
    /\ pkt_pushed = <<>>
    /\ rx = NoRx

\* ------------------------------------------ CameraVisionModule tracking ids
\* box.xyxy: corners (x1, y1) and (x2, y2) with x1 <= x2 and y1 <= y2
Boxes ==
    {b \in (0..MaxX) \X (0..MaxY) \X (0..MaxX) \X (0..MaxY) :
        b[1] <= b[3] /\ b[2] <= b[4]}

\* lines 233-235: cx = (x1 + x2) // 2, cy = (y1 + y2) // 2
Centroid(bbox) == <<(bbox[1] + bbox[3]) \div 2, (bbox[2] + bbox[4]) \div 2>>

\* The square of the distance np.sqrt(...) of line 241.
Dist2(a, b) ==
    (a[1] - b[1]) * (a[1] - b[1]) + (a[2] - b[2]) * (a[2] - b[2])

NoId == -1      \* closest_id = None

\* (mutant) an object at exactly the matching radius matches
NearLe(d2) == d2 <= MatchDist * MatchDist

\* dist < 100
Near(d2) == d2 < MatchDist * MatchDist

\* (mutant) a later object at the same distance replaces the earlier one
CloserLe(d2, best) == d2 <= best

\* dist < min_dist
Closer(d2, best) == d2 < best

\* lines 240-244: the loop over tracked_objects.items() from item k on, with
\* closest_id = id and min_dist^2 = best so far (best is not read while id
\* is NoId: min_dist is infinite then).
RECURSIVE Scan(_, _, _, _, _)
Scan(items, k, c, id, best) ==
    IF k > Len(items) THEN id
    ELSE LET d2 == Dist2(items[k].centroid, c)
         IN  IF (id = NoId \/ Closer(d2, best)) /\ Near(d2)
             THEN Scan(items, k + 1, c, items[k].id, d2)
             ELSE Scan(items, k + 1, c, id, best)

\* d[key] = val on a dict kept as its items in insertion order
DictSet(items, key, val) ==
    IF \E k \in 1..Len(items) : items[k].id = key
    THEN [k \in 1..Len(items) |->
             IF items[k].id = key THEN [val EXCEPT !.id = key] ELSE items[k]]
    ELSE Append(items, [val EXCEPT !.id = key])

\* (mutant) the counter is not advanced
NextCounterStuck(counter) == counter

\* self.tracking_id_counter += 1
NextCounter(counter) == counter + 1

\* CameraVisionModule._assign_tracking_id(bbox), called at time t: the new
\* dict, the new counter and the id returned.
AssignTrackingId(items, counter, bbox, t) ==
    LET c == Centroid(bbox)
        closest_id == Scan(items, 1, c, NoId, 0)
        entry == [id |-> 0, centroid |-> c, last_seen |-> t]
    IN  IF closest_id # NoId
        THEN [items |-> DictSet(items, closest_id, entry),
              counter |-> counter, id |-> closest_id]
        ELSE [items |-> DictSet(items, counter, entry),
              counter |-> NextCounter(counter), id |-> counter]

NoDet ==
    [called |-> FALSE, centroid |-> <<0, 0>>, before |-> <<>>,
     counter_before |-> 0, id |-> NoId]

\* lines 79-80
VisionInit ==
    /\ tracked_objects = <<>>
    /\ tracking_id_counter = 0
    /\ det = NoDet
    /\ dets = <<>>

\* ----------------------------------------------------------------- startup
Sources == {"camera", "esp8266", "esp32", "wifi_adapter"}

\* The transports startup_event opens an endpoint for (lines 69-78)
ListenedSources == {"esp8266", "esp32"}

\* ml_engine = None
NoEngine ==
    [up |-> FALSE, camera |-> "none", esp8266 |-> "none", esp32 |-> "none",
     wifi_adapter |-> "none"]

NoFailure == [src |-> "none", how |-> "none"]

NoHandled == [port |-> "none", msg |-> "", by |-> "none", fed |-> "none"]

\* The module globals before startup_event runs, under configuration cfg.
Unstarted(cfg) ==
    /\ booted = FALSE
    /\ config = cfg
    /\ ml_engine = NoEngine
    /\ listeners = {}
    /\ camera_task = FALSE
    /\ init_failed = NoFailure
    /\ socket = [s \in ListenedSources |-> <<>>]
    /\ vis_pc = "sleep"
    /\ handled = NoHandled
    /\ published = {}
    /\ shut_down = FALSE

\* A started server: every source enabled, every initialisation succeeded.
StartedInit ==
    /\ booted = TRUE
    /\ config = [s \in Sources |-> TRUE]
    /\ ml_engine = [up |-> TRUE, camera |-> "ok", esp8266 |-> "ok",
                    esp32 |-> "ok", wifi_adapter |-> "ok"]
    /\ listeners = ListenedSources
    /\ camera_task = TRUE
    /\ init_failed = NoFailure
    /\ socket = [s \in ListenedSources |-> <<>>]
    /\ vis_pc = "sleep"
    /\ handled = NoHandled
    /\ published = {}
    /\ shut_down = FALSE

\* Nothing serialized yet.
NoWire == [called |-> FALSE, ev |-> <<>>, raised |-> FALSE, parsed |-> <<>>]

WireInit == wire = NoWire

\* No pass of the camera loop made yet.  tick changes at every pass; outcome
\* is "noframe" (nothing to publish), "frame" (an event went to
\* broadcast_detection), "detect_raised" or "publish_raised"; hs and clients
\* are handoff_start and websocket_clients where the pass raised.
NoLoop ==
    [tick |-> FALSE, outcome |-> "none", hs |-> NoTime, clients |-> <<>>]

LoopInit == loop = NoLoop

Init ==
    /\ FusionInit /\ ServerInit /\ AdapterInit /\ VisionInit /\ StartedInit
    /\ WireInit /\ LoopInit

\* The process before startup_event, under any configuration.
BootInit ==
    /\ FusionInit /\ ServerInit /\ AdapterInit /\ VisionInit /\ WireInit
    /\ LoopInit
    /\ \E cfg \in [Sources -> BOOLEAN] : Unstarted(cfg)

\* ------------------------------------------- the fusion engine on its own
\* A WiFi adapter returns a fresh DetectionResult and the caller keeps it as
\* the latest WiFi-derived event.
WifiEvent ==
    \E src \in WifiSources, m \in BOOLEAN, c \in Confs :
        /\ wifi' = DetectionResult(now, src, m, c)
        /\ UNCHANGED <<now, handoff_start, cycle, run_start, first_nodet, steady,
                       fired>>
        /\ UNCHANGED <<serverVars, adapterVars,
                       visionVars, startVars, wireVars, loopVars>>

\* One fusion cycle: fuse(cam, w) with w either None or the held WiFi object.
FuseCycle ==
    \E t \in now..MaxTime : \E cam \in CamInputs(t), w \in {NoEvent, wifi} :
        /\ Cycle(t, cam, w)
        /\ UNCHANGED <<serverVars, adapterVars,
                       visionVars, startVars, wireVars, loopVars>>

FusionNext == WifiEvent \/ FuseCycle

SpecFusion == Init /\ [][FusionNext]_vars

\* --------------------------------------------------------- broadcast_detection
InSeq(s, x) == \E k \in 1..Len(s) : s[k] = x

\* list.remove(x) on a list that holds x: the first occurrence goes
Remove(s, x) ==
    LET i == CHOOSE k \in 1..Len(s) :
                 s[k] = x /\ \A j \in 1..(k - 1) : s[j] # x
    IN  SubSeq(s, 1, i - 1) \o SubSeq(s, i + 1, Len(s))

\* lines 209-210: for client in dead_clients: websocket_clients.remove(client)
\* list.remove raises ValueError when the client is no longer in the list; the
\* loop then stops with the remaining dead clients still registered.
RECURSIVE RemoveDead(_, _)
RemoveDead(clients, dead) ==
    IF dead = <<>> THEN [clients |-> clients, ok |-> TRUE]
    ELSE IF InSeq(clients, Head(dead))
         THEN RemoveDead(Remove(clients, Head(dead)), Tail(dead))
         ELSE [clients |-> clients, ok |-> FALSE]

\* A broadcast_detection call: origin "wifi" (a task made by a UDP listener)
\* or "cam" (awaited by the camera loop); ev the event; fused whether ev came
\* out of fuse (history); st
\* "created" (task not yet run), "running" (suspended in send_text), "done"
\* or "error" (ValueError left the coroutine); idx the list iterator's next
\* index; pend the connection whose send_text is awaited (0: none); dead the
\* dead_clients list; json whether json.dumps accepts the serialized event
\* (it raises TypeError for the numpy values some events carry).
NewTask(origin, ev, fused, json) ==
    [origin |-> origin, ev |-> ev, fused |-> fused, json |-> json,
     st |-> "created", idx |-> 1, pend |-> 0, dead |-> <<>>]

\* The coroutine of broadcast number p runs from where it stands (tk) until
\* its next await: it takes the next client from the list iterator and calls
\* send_text (the frame is delivered when the connection is open; the write
\* raises and the client joins dead_clients when it is closed; nothing
\* happens when it is stalled), or, the iterator exhausted, removes the dead
\* clients and ends.  When json.dumps(message) raises, it does so inside the
\* try, before send_text is called: the bare except puts the client on
\* dead_clients and the loop goes on without an await, so the coroutine runs
\* to its end in one step with every registered client dead.
BroadcastRun(p, tk, clients, inb) ==
    IF ~tk.json
    THEN LET r == RemoveDead(clients, clients)
         IN  [task |-> [tk EXCEPT !.st = IF r.ok THEN "done" ELSE "error",
                                  !.idx = Len(clients) + 1, !.pend = 0,
                                  !.dead = clients],
              clients |-> r.clients,
              inbox |-> inb]
    ELSE IF tk.idx <= Len(clients)
    THEN LET c == clients[tk.idx]
             ok == conn[c] = "open"
         IN  [task |-> [tk EXCEPT !.st = "running", !.idx = @ + 1, !.pend = c,
                                  !.dead = IF conn[c] = "closed"
                                           THEN Append(@, c) ELSE @],
              clients |-> clients,
              inbox |-> IF ok THEN [inb EXCEPT ![c] = Append(@, p)] ELSE inb]
    ELSE LET r == RemoveDead(clients, tk.dead)
         IN  [task |-> [tk EXCEPT !.st = IF r.ok THEN "done" ELSE "error",
                                  !.pend = 0],
              clients |-> r.clients,
              inbox |-> inb]

Finished(tk) == tk.st \in {"done", "error"}

\* The event loop runs what is ready in FIFO order: a task made by
\* create_task takes its first step before any later-made task does and
\* before the camera loop wakes from a timer that fires afterwards.
NoneCreatedBefore(p) == \A q \in 1..(p - 1) : tasks[q].st # "created"

Pos(s, x) == CHOOSE k \in 1..Len(s) : s[k] = x

\* Frames written to one open connection complete in the order in which the
\* writes were started: the awaited send_text of broadcast p returns only
\* when no write to the same connection that was started earlier (the status
\* object, or another broadcast's frame) is still pending.  Writes that fail
\* return in any order; a write to a stalled connection does not return.
SendReturns(p) ==
    LET x == tasks[p].pend
    IN  /\ x # 0 => conn[x] # "stalled"
        /\ (x # 0 /\ conn[x] = "open") =>
               /\ ep[x] # "status"
               /\ \A q \in 1..Len(tasks) :
                      (q # p /\ tasks[q].st = "running" /\ tasks[q].pend = x
                           /\ InSeq(inbox[x], q) /\ InSeq(inbox[x], p)) =>
                          Pos(inbox[x], p) < Pos(inbox[x], q)

\* (mutant) the exception leaves camera_processing_loop and the task ends
Uncaught == "ended"

\* lines 186-188: except Exception logs the error and awaits
\* asyncio.sleep(1.0) inside the while loop, which then goes round again.
Caught == "sleep"

\* A broadcast resumes: a task's first step (which stores latest_detection)
\* or the completion of an awaited send_text.  When the camera loop's own
\* broadcast returns, the loop goes to sleep (frame_delay); when it raises
\* (ValueError out of the removal loop), the except clause of the loop takes
\* it.
PublishStep ==
    \E p \in 1..Len(tasks) :
        LET tk == tasks[p]
            r == BroadcastRun(p, tk, websocket_clients, inbox)
        IN  /\ ~Finished(tk)
            /\ tk.st = "created" => NoneCreatedBefore(p)
            /\ tk.st = "running" => SendReturns(p)
            /\ tasks' = [tasks EXCEPT ![p] = r.task]
            /\ websocket_clients' = r.clients
            /\ inbox' = r.inbox
            /\ latest_detection' = IF tk.st = "created" THEN p
                                   ELSE latest_detection
            /\ cam_pc' = IF tk.origin = "cam" /\ r.task.st = "done"
                         THEN "sleep"
                         ELSE IF tk.origin = "cam" /\ r.task.st = "error"
                         THEN Caught
                         ELSE cam_pc
            /\ loop' = IF tk.origin = "cam" /\ r.task.st = "error"
                       THEN [loop EXCEPT !.outcome = "publish_raised",
                                         !.hs = handoff_start,
                                         !.clients = r.clients]
                       ELSE loop
            /\ UNCHANGED <<conn, ep, joined, asked, fusionVars, adapterVars,
                       visionVars, startVars, wireVars>>

\* ------------------------------------------------------------ UDP listeners
\* What the adapter returns for the datagrams fed to the listeners here:
\* no motion with confidence 0.0 and the literal False (process_rssi with
\* fewer than 5 samples), which serializes, or motion with confidence 1.0
\* (the window's variance is large), whose motion flag is a numpy.bool_ that
\* json.dumps rejects.
SampleOutcomes == {<<FALSE, 0, TRUE>>, <<TRUE, ConfScale, FALSE>>}

\* datagram_received with a well-formed datagram: the adapter returns a fresh
\* event (its motion and confidence follow from the adapter's window, left
\* open here) and a task is created for broadcast_detection(result).  Nothing
\* stores the event for the camera loop.
Datagram(src) ==
    \E o \in SampleOutcomes :
        LET ev == DetectionResult(now, src, o[1], o[2])
        IN  /\ Len(tasks) < MaxPub
            /\ wifi' = ev
            /\ tasks' = Append(tasks, NewTask("wifi", ev, FALSE, o[3]))
            /\ UNCHANGED <<now, handoff_start, cycle, run_start, first_nodet,
                           steady, fired>>
            /\ UNCHANGED <<websocket_clients, conn, ep, inbox,
                           latest_detection, cam_pc, joined, asked, adapterVars,
                       visionVars, startVars, wireVars, loopVars>>

Esp8266Datagram == Datagram("wifi_rssi")

Esp32Datagram == Datagram("wifi_csi")

\* ------------------------------------------------------ camera_processing_loop
\* line 178: getattr(ml_engine, '_last_wifi_result', None); no code assigns
\* the attribute, so the default is what the loop gets.
LastWifiResult == NoEvent

\* Whether json.dumps accepts what the camera loop publishes: a vision event
\* without motion has empty lists; one with motion has its boxes in bboxes,
\* tuples of numpy.int64 (ml_engine.py lines 164, 169).
CamJsonOk(res) == ~res.motion_detected

\* The loop sleeps between passes, so each pass reads a later clock value.
NextTime == IF now < MaxTime THEN now + 1 ELSE now

\* One pass of the loop with a frame available, in hybrid mode: detect, fuse
\* with the cached WiFi result, store latest_detection and run
\* broadcast_detection up to its first await.
CameraCycle ==
    \E cam \in CamInputs(NextTime) \ {NoEvent} :
        LET t == NextTime
            w == LastWifiResult
            p == Len(tasks) + 1
            res == fuse(cam, w, handoff_start, t).res
            r == BroadcastRun(p, NewTask("cam", res, TRUE, CamJsonOk(res)),
                              websocket_clients, inbox)
        IN  /\ cam_pc = "sleep"
            /\ ml_engine.up /\ ml_engine.camera = "ok"
            /\ Len(tasks) < MaxPub
            /\ NoneCreatedBefore(p)
            /\ Cycle(t, cam, w)
            /\ latest_detection' = p
            /\ tasks' = Append(tasks, r.task)
            /\ websocket_clients' = r.clients
            /\ inbox' = r.inbox
            /\ cam_pc' = IF r.task.st = "done" THEN "sleep"
                         ELSE IF r.task.st = "error" THEN Caught
                         ELSE "publish"
            /\ loop' = IF r.task.st = "error"
                       THEN [tick |-> ~loop.tick, outcome |-> "publish_raised",
                             hs |-> handoff_start', clients |-> r.clients]
                       ELSE [tick |-> ~loop.tick, outcome |-> "frame",
                             hs |-> NoTime, clients |-> <<>>]
            /\ UNCHANGED <<conn, ep, joined, asked, adapterVars,
                       visionVars, startVars, wireVars>>

\* ---------------------------------------------------------- websocket_endpoint
\* (mutant) the status object is not written before the handler yields
StatusNotWritten(inb, c) == inb

\* lines 252-259: send_text is called with the status object right after the
\* append, before the handler yields to the event loop: the status frame
\* (frame 0) is the first write on the connection.
StatusWritten(inb, c) == [inb EXCEPT ![c] = Append(@, 0)]

\* lines 246-259: accept, append to the registry and start sending the status
\* object (frame 0), with no await in between.  Connection k is the k-th one
\* accepted.
Connect ==
    \E c \in Clients :
        /\ ep[c] = "idle"
        /\ \A d \in 1..(c - 1) : ep[d] # "idle"
        /\ conn' = [conn EXCEPT ![c] = "open"]
        /\ websocket_clients' = Append(websocket_clients, c)
        /\ ep' = [ep EXCEPT ![c] = "status"]
        /\ joined' = [joined EXCEPT ![c] = Len(tasks)]
        /\ inbox' = StatusWritten(inbox, c)
        /\ UNCHANGED <<tasks, latest_detection, cam_pc, asked, fusionVars,
                       adapterVars,
                       visionVars, startVars, wireVars, loopVars>>

\* line 252: the awaited send_text of the status object returns, or, the
\* connection closed meanwhile, raises outside the try block: the handler
\* ends and the connection stays registered.
StatusSent ==
    \E c \in Clients :
        /\ ep[c] = "status"
        /\ conn[c] # "stalled"
        /\ ep' = [ep EXCEPT ![c] = IF conn[c] = "open" THEN "recv" ELSE "failed"]
        /\ UNCHANGED <<websocket_clients, conn, inbox, tasks, latest_detection,
                       cam_pc, joined, asked, fusionVars, adapterVars,
                       visionVars, startVars, wireVars, loopVars>>

\* data == "get_latest"
IsGetLatest(text) == text = "get_latest"

\* lines 262-270: receive_text returns a text from the client; on
\* "get_latest", if latest_detection is set, it is serialized and sent back
\* (frame -q stands for a reply that carries the event of broadcast q).
\* When json.dumps raises TypeError, no except clause of the handler takes
\* it: the handler ends ("crashed"), the connection is closed under it and
\* stays in the registry.
ClientText ==
    \E c \in Clients : \E text \in {"get_latest", "ping"} :
        LET wanted == IsGetLatest(text) /\ latest_detection # 0
            raised == wanted /\ ~tasks[latest_detection].json
            reply == wanted /\ ~raised
        IN  /\ ep[c] = "recv"
            /\ conn[c] = "open"
            /\ asked.n < MaxAsk
            /\ asked' = [n |-> asked.n + 1, c |-> c, text |-> text,
                         latest |-> latest_detection, sent |-> reply,
                         raised |-> raised]
            /\ inbox' = [inbox EXCEPT ![c] =
                             IF reply THEN Append(@, 0 - latest_detection)
                             ELSE @]
            /\ ep' = [ep EXCEPT ![c] = IF raised THEN "crashed" ELSE @]
            /\ conn' = [conn EXCEPT ![c] = IF raised THEN "closed" ELSE @]
            /\ UNCHANGED <<websocket_clients, tasks,
                           latest_detection, cam_pc, joined, fusionVars,
                           adapterVars, visionVars, startVars, wireVars, loopVars>>

\* The peer goes away: writes to the connection fail from now on.
ClientClose ==
    \E c \in Clients :
        /\ conn[c] = "open"
        /\ conn' = [conn EXCEPT ![c] = "closed"]
        /\ UNCHANGED <<websocket_clients, ep, inbox, tasks, latest_detection,
                       cam_pc, joined, asked, fusionVars, adapterVars,
                       visionVars, startVars, wireVars, loopVars>>

\* The peer stops reading without closing: the write buffer of the connection
\* stays full and writes to it wait.
ClientStall ==
    \E c \in Clients :
        /\ conn[c] = "open"
        /\ conn' = [conn EXCEPT ![c] = "stalled"]
        /\ UNCHANGED <<websocket_clients, ep, inbox, tasks, latest_detection,
                       cam_pc, joined, asked, fusionVars, adapterVars,
                       visionVars, startVars, wireVars, loopVars>>

\* lines 272-274: receive_text raises WebSocketDisconnect and the handler
\* removes the connection; list.remove raises ValueError when a broadcast
\* has removed it already.
Disconnect ==
    \E c \in Clients :
        /\ ep[c] = "recv"
        /\ conn[c] = "closed"
        /\ IF InSeq(websocket_clients, c)
           THEN /\ websocket_clients' = Remove(websocket_clients, c)
                /\ ep' = [ep EXCEPT ![c] = "done"]
           ELSE /\ ep' = [ep EXCEPT ![c] = "error"]
                /\ UNCHANGED websocket_clients
        /\ UNCHANGED <<conn, inbox, tasks, latest_detection, cam_pc, joined, asked,
                       fusionVars, adapterVars,
                       visionVars, startVars, wireVars, loopVars>>

Next ==
    \/ Esp8266Datagram
    \/ Esp32Datagram
    \/ CameraCycle
    \/ PublishStep
    \/ Connect
    \/ StatusSent
    \/ ClientClose
    \/ ClientStall
    \/ Disconnect

Spec == Init /\ [][Next]_vars

\* The server with clients that also send texts to their handlers.
NextClient == Next \/ ClientText

SpecClient == Init /\ [][NextClient]_vars

\* The event loop runs every callback that is ready: a broadcast whose write
\* has returned resumes, an endpoint handler whose write or read has returned
\* resumes, and the camera loop wakes when its sleep is over.  Nothing is
\* assumed of the datagram sources and of the peers.
FairSpec ==
    /\ Spec
    /\ WF_vars(PublishStep)
    /\ WF_vars(StatusSent)
    /\ WF_vars(Disconnect)
    /\ WF_vars(CameraCycle)

\* ----------------------------------------- the camera loop and its errors
\* A pass of the loop that has nothing to publish: ml_engine or its camera
\* is not set (line 171), or detect() returns None because the camera is
\* disabled or closed (ml_engine.py lines 139-140) or cap.read() gave no
\* frame (lines 142-144).  "if result:" is false: fuse and
\* broadcast_detection are not called and the loop sleeps frame_delay.
CameraNoFrame ==
    /\ cam_pc = "sleep"
    /\ cam_pc' = "sleep"
    /\ loop' = [tick |-> ~loop.tick, outcome |-> "noframe", hs |-> NoTime,
                clients |-> <<>>]
    /\ UNCHANGED <<websocket_clients, conn, ep, inbox, tasks, latest_detection,
                   joined, asked, fusionVars, adapterVars, visionVars,
                   startVars, wireVars>>

\* A pass in which process_camera_frame raises: a frame was read and the
\* detector call fails (TypeError when _init_yolo left self.yolo = None, or
\* an error of the inference itself; ml_engine.py lines 146-151 are outside
\* any try).  The loop's except clause takes it.
CameraRaises ==
    /\ cam_pc = "sleep"
    /\ ml_engine.up /\ ml_engine.camera \in {"ok", "no_yolo"}
    /\ cam_pc' = Caught
    /\ loop' = [tick |-> ~loop.tick, outcome |-> "detect_raised",
                hs |-> handoff_start, clients |-> websocket_clients]
    /\ UNCHANGED <<websocket_clients, conn, ep, inbox, tasks, latest_detection,
                   joined, asked, fusionVars, adapterVars, visionVars,
                   startVars, wireVars>>

\* A started server whose camera module is in any of the states
\* CameraVisionModule.__init__ can leave it in.
LoopStart ==
    /\ FusionInit /\ ServerInit /\ AdapterInit /\ VisionInit /\ WireInit
    /\ LoopInit
    /\ booted = TRUE
    /\ config = [s \in Sources |-> TRUE]
    /\ \E c \in {"ok", "no_yolo", "closed"} :
           ml_engine = [up |-> TRUE, camera |-> c, esp8266 |-> "ok",
                        esp32 |-> "ok", wifi_adapter |-> "ok"]
    /\ listeners = ListenedSources
    /\ camera_task = TRUE
    /\ init_failed = NoFailure
    /\ socket = [s \in ListenedSources |-> <<>>]
    /\ vis_pc = "sleep"
    /\ handled = NoHandled
    /\ published = {}
    /\ shut_down = FALSE

\* The camera loop, its broadcasts and the WebSocket connections.
LoopNext ==
    \/ CameraCycle
    \/ CameraNoFrame
    \/ CameraRaises
    \/ PublishStep
    \/ Connect
    \/ StatusSent
    \/ ClientClose
    \/ ClientStall
    \/ Disconnect

SpecLoop == LoopStart /\ [][LoopNext]_vars

\* The event loop resumes every coroutine that is ready; the camera loop's
\* sleep always ends.
FairLoop ==
    /\ SpecLoop
    /\ WF_vars(PublishStep)
    /\ WF_vars(StatusSent)
    /\ WF_vars(Disconnect)
    /\ WF_vars(CameraCycle \/ CameraNoFrame \/ CameraRaises)

\* ------------------------------------------- the listeners and the adapters
\* A text field of a datagram: a numeral, or text that int() and float()
\* reject with ValueError.
Num(n) == [num |-> TRUE, v |-> n]
Junk == [num |-> FALSE, v |-> 0]

RssiValues == {0, 10}
Amplitudes == {0, 1, 3}

\* Packet data: a dict without 'rssi', or with a level 8 above the default.
PktInputs == {<<>>, <<PktDefault + 8>>}

\* A coarse-signal datagram: head, then the ":"-separated fields after it
\* ("RSS:10" is head "RSS" with one field; "RSS" alone has no ":").
RssiMessages ==
    {[head |-> "RSS", parts |-> <<Num(v)>>] : v \in RssiValues}
      \cup {[head |-> "RSS", parts |-> <<>>],
            [head |-> "RSS", parts |-> <<Junk>>],
            [head |-> "XYZ", parts |-> <<Num(10)>>]}

\* n amplitude fields: zeros, then a
AmpRow(n, a) == [k \in 1..n |-> Num(IF k = n THEN a ELSE 0)]

\* A fine-signal datagram: its ","-separated fields.  A timestamp and NSub
\* amplitudes; one amplitude short; two short; a non-numeric amplitude; a
\* trailing extra field.
CsiMessages ==
    {<<Num(0)>> \o AmpRow(NSub, a) : a \in Amplitudes}
      \cup {<<Num(0)>> \o AmpRow(NSub - 1, 3),
            <<Num(0)>> \o AmpRow(NSub - 2, 3),
            <<Num(0), Junk>> \o AmpRow(NSub - 1, 1),
            <<Num(0)>> \o AmpRow(NSub, 1) \o <<Junk>>}

Processed == Len(rssi_pushed) + csi_count + Len(pkt_pushed)

\* message.startswith("RSS:") and int(message.split(":")[1]) succeeds
RssiParses(msg) ==
    msg.head = "RSS" /\ Len(msg.parts) >= 1 /\ msg.parts[1].num

\* ESP8266UDPProtocol.datagram_received: a datagram without the prefix is
\* ignored, int() raising ValueError is caught and logged; otherwise the
\* adapter processes the value and a task is created to broadcast the
\* result (rx.task; the task itself is followed in Spec, not here).
Esp8266Receive ==
    \E msg \in RssiMessages :
        /\ IF RssiParses(msg)
           THEN LET v == msg.parts[1].v
                    r == process_rssi(rssi_window, v)
                IN  /\ Processed < MaxSamples
                    /\ rssi_window' = r.window
                    /\ rssi_pushed' = Append(rssi_pushed, v)
                    /\ rx' = [src |-> "rssi", msg |-> msg, called |-> TRUE,
                              sample |-> <<v>>, before |-> rssi_window,
                              res |-> r.res, task |-> TRUE]
           ELSE /\ rx' = [src |-> "rssi", msg |-> msg, called |-> FALSE,
                          sample |-> <<>>, before |-> rssi_window,
                          res |-> <<>>, task |-> FALSE]
                /\ UNCHANGED <<rssi_window, rssi_pushed>>
        /\ UNCHANGED <<csi_window, csi_count, packets, pkt_pushed>>
        /\ UNCHANGED <<fusionVars, serverVars, visionVars, startVars, wireVars, loopVars>>

MinFields == NSub   \* len(parts) >= 64

\* parts[1:65]: the fields after the first, at most NSub of them
CsiSlice(parts) == SubSeq(parts, 2, IF Len(parts) < NSub + 1 THEN Len(parts)
                                    ELSE NSub + 1)

\* [float(x) for x in ...] succeeds
AllNumeric(fields) == \A k \in 1..Len(fields) : fields[k].num

Values(fields) == [k \in 1..Len(fields) |-> fields[k].v]

\* ESP32UDPProtocol.datagram_received, given a datagram out of msgs
Esp32ReceiveFrom(msgs) ==
    \E msg \in msgs :
        /\ IF Len(msg) >= MinFields /\ AllNumeric(CsiSlice(msg))
           THEN LET csi_data == Values(CsiSlice(msg))
                    r == process_csi(csi_window, csi_data)
                IN  /\ Processed < MaxSamples
                    /\ csi_window' = r.window
                    /\ csi_count' = csi_count + 1
                    /\ rx' = [src |-> "csi", msg |-> msg, called |-> TRUE,
                              sample |-> csi_data, before |-> csi_window,
                              res |-> r.res, task |-> TRUE]
           ELSE /\ rx' = [src |-> "csi", msg |-> msg, called |-> FALSE,
                          sample |-> <<>>, before |-> csi_window,
                          res |-> <<>>, task |-> FALSE]
                /\ UNCHANGED <<csi_window, csi_count>>
        /\ UNCHANGED <<rssi_window, rssi_pushed, packets, pkt_pushed>>
        /\ UNCHANGED <<fusionVars, serverVars, visionVars, startVars, wireVars, loopVars>>

Esp32Receive == Esp32ReceiveFrom(CsiMessages)

\* WiFiMonitorModule.process_packet, called with one packet's data
WifiPacket ==
    \E data \in PktInputs :
        LET r == process_packet(packets, data)
        IN  /\ Processed < MaxSamples
            /\ packets' = r.window
            /\ pkt_pushed' = Append(pkt_pushed, PktValue(data))
            /\ rx' = [src |-> "pkt", msg |-> data, called |-> TRUE,
                      sample |-> data, before |-> packets, res |-> r.res,
                      task |-> FALSE]
            /\ UNCHANGED <<rssi_window, rssi_pushed, csi_window, csi_count>>
            /\ UNCHANGED <<fusionVars, serverVars, visionVars, startVars, wireVars, loopVars>>

AdapterNext == Esp8266Receive \/ Esp32Receive \/ WifiPacket

SpecAdapters == Init /\ [][AdapterNext]_vars

\* ---------------------------------------- the adapters on any parsed sample
\* float() also parses "nan" (and "inf", whose variance is NaN as well): a
\* fine-signal datagram with such an amplitude is a sample like any other
\* to the listener.
NonFiniteMessages == {<<Num(0)>> \o AmpRow(NSub, NaNMark)}

Esp32ReceiveAny == Esp32ReceiveFrom(CsiMessages \cup NonFiniteMessages)

ConfidenceNext == Esp8266Receive \/ Esp32ReceiveAny \/ WifiPacket

SpecConfidence == Init /\ [][ConfidenceNext]_vars

\* --------------------------------------------------- tracking ids on their own
\* detect() calls _assign_tracking_id once for every box the detector
\* returned without an id of its own.  The call number stands for time.time().
AssignId ==
    \E bbox \in Boxes :
        LET r == AssignTrackingId(tracked_objects, tracking_id_counter, bbox,
                                  Len(dets) + 1)
        IN  /\ Len(dets) < MaxDet
            /\ tracked_objects' = r.items
            /\ tracking_id_counter' = r.counter
            /\ det' = [called |-> TRUE, centroid |-> Centroid(bbox),
                       before |-> tracked_objects,
                       counter_before |-> tracking_id_counter, id |-> r.id]
            /\ dets' = Append(dets, [centroid |-> Centroid(bbox), id |-> r.id])
            /\ UNCHANGED <<fusionVars, serverVars, adapterVars, startVars, wireVars, loopVars>>

SpecVision == Init /\ [][AssignId]_vars

\* ------------------------------------------- startup and the event loop
MaxQueue == 1   \* datagrams one socket holds

\* The initialisations that can fail under configuration cfg:
\*   camera/open      _init_camera's except clause: self.enabled = False
\*   camera/detector  _init_yolo's except clause: self.yolo = None
\*   s/raise          an exception leaves the module's constructor (a
\*                    lookup outside any try, such as config['detection']
\*                    ['rssi']) and with it MLEngine(CONFIG)
\*   s/bind           create_datagram_endpoint raises in the listener task
Failures(cfg) ==
    {NoFailure}
      \cup {[src |-> "camera", how |-> h] : h \in
                IF cfg["camera"] THEN {"open", "detector"} ELSE {}}
      \cup {[src |-> s, how |-> "raise"] : s \in {x \in Sources : cfg[x]}}
      \cup {[src |-> s, how |-> "bind"] :
                s \in {x \in ListenedSources : cfg[x]}}

\* CameraVisionModule.__init__ as MLEngine.__init__ holds it
CameraModule(cfg, f) ==
    IF ~cfg["camera"] THEN "none"
    ELSE IF f.src = "camera" /\ f.how = "open" THEN "closed"
    ELSE IF f.src = "camera" /\ f.how = "detector" THEN "no_yolo"
    ELSE "ok"

\* MLEngine(CONFIG) inside startup_event's try: None when the constructor
\* raised, else one module per enabled source.
MLEngine(cfg, f) ==
    IF f.how = "raise" THEN NoEngine
    ELSE [up |-> TRUE,
          camera |-> CameraModule(cfg, f),
          esp8266 |-> IF cfg["esp8266"] THEN "ok" ELSE "none",
          esp32 |-> IF cfg["esp32"] THEN "ok" ELSE "none",
          wifi_adapter |-> IF cfg["wifi_adapter"] THEN "ok" ELSE "none"]

\* startup_event (it has no await), and the first step of the listener tasks
\* it creates: an endpoint for esp8266 and for esp32 when enabled, the camera
\* task when the camera is enabled.  Nothing is started for wifi_adapter.
Startup ==
    \E f \in Failures(config) :
        /\ ~booted
        /\ booted' = TRUE
        /\ init_failed' = f
        /\ ml_engine' = MLEngine(config, f)
        /\ listeners' = {s \in ListenedSources :
                             config[s] /\ ~(f.src = s /\ f.how = "bind")}
        /\ camera_task' = config["camera"]
        /\ UNCHANGED <<shut_down, config, socket, vis_pc, handled, published>>
        /\ UNCHANGED <<fusionVars, serverVars, adapterVars, visionVars, wireVars, loopVars>>

\* Three datagrams: a coarse-signal sample, a fine-signal sample (a
\* timestamp and 64 amplitudes) and a raw-packet report as wifi_monitor.py
\* line 99 formats it.
RssDatagram == "RSS:-50"
CsiDatagram == "0,a1,...,a64"
WifiDatagram == "WIFI:-50,0,8"
Datagrams == {RssDatagram, CsiDatagram, WifiDatagram}

Ports == ListenedSources \cup {"other"}

\* What each handler accepts: ESP8266UDPProtocol a message that starts with
\* "RSS:" and whose second ":"-field int() parses; ESP32UDPProtocol a message
\* with at least 64 ","-fields of which those after the first are floats.
\* The raw-packet report has neither the prefix nor that many fields.
Accepts(port, m) ==
    \/ port = "esp8266" /\ m = RssDatagram
    \/ port = "esp32" /\ m = CsiDatagram

\* The network delivers a datagram to a port: the operating system queues
\* it on the socket of the endpoint bound there, or drops it when no
\* endpoint is.  No code of the server runs.
Arrive ==
    \E port \in Ports : \E m \in Datagrams :
        /\ booted
        /\ IF port \in listeners
           THEN /\ Len(socket[port]) < MaxQueue
                /\ socket' = [socket EXCEPT ![port] = Append(@, m)]
                /\ UNCHANGED handled
           ELSE /\ handled' = [port |-> port, msg |-> m, by |-> "nobody",
                               fed |-> "none"]
                /\ UNCHANGED socket
        /\ UNCHANGED <<shut_down, booted, config, ml_engine, listeners, camera_task,
                       init_failed, vis_pc, published>>
        /\ UNCHANGED <<fusionVars, serverVars, adapterVars, visionVars, wireVars, loopVars>>

\* The event loop calls datagram_received with the socket's oldest datagram.
\* It calls one callback at a time: not while the camera task is inside
\* process_camera_frame, which the loop calls without await (line 172).
\* The handler feeds the adapter and creates the broadcast task when it
\* accepts the message and ml_engine is set.
DatagramReceived(port) ==
    /\ booted
    /\ port \in listeners
    /\ socket[port] # <<>>
    /\ vis_pc # "detect"
    /\ LET m == Head(socket[port])
           fed == Accepts(port, m) /\ ml_engine.up /\ ml_engine[port] = "ok"
       IN  /\ socket' = [socket EXCEPT ![port] = Tail(@)]
           /\ handled' = [port |-> port, msg |-> m, by |-> "handler",
                          fed |-> IF fed THEN port ELSE "none"]
           /\ published' = IF fed THEN published \cup {port} ELSE published
    /\ UNCHANGED <<shut_down, booted, config, ml_engine, listeners, camera_task,
                   init_failed, vis_pc>>
    /\ UNCHANGED <<fusionVars, serverVars, adapterVars, visionVars, wireVars, loopVars>>

Esp8266DatagramReceived == DatagramReceived("esp8266")

Esp32DatagramReceived == DatagramReceived("esp32")

\* The camera task wakes from its sleep and calls process_camera_frame:
\* detect() goes on to cap.read() and the detector unless the camera is
\* disabled or closed (then it returns None at once, lines 139-140).
DetectBegin ==
    /\ booted
    /\ camera_task
    /\ vis_pc = "sleep"
    /\ ml_engine.up
    /\ ml_engine.camera \in {"ok", "no_yolo"}
    /\ vis_pc' = "detect"
    /\ UNCHANGED <<shut_down, booted, config, ml_engine, listeners, camera_task,
                   init_failed, socket, handled, published>>
    /\ UNCHANGED <<fusionVars, serverVars, adapterVars, visionVars, wireVars, loopVars>>

\* process_camera_frame returns, or raises: with self.yolo = None the call
\* self.yolo(frame, ...) raises TypeError, which the loop's except clause
\* logs before sleeping.  Otherwise the result goes to broadcast_detection.
DetectEnd ==
    /\ vis_pc = "detect"
    /\ vis_pc' = "sleep"
    /\ published' = IF ml_engine.camera = "ok"
                    THEN published \cup {"camera"} ELSE published
    /\ UNCHANGED <<shut_down, booted, config, ml_engine, listeners, camera_task,
                   init_failed, socket, handled>>
    /\ UNCHANGED <<fusionVars, serverVars, adapterVars, visionVars, wireVars, loopVars>>

\* The camera holds its capture device
CapOpen(engine) == engine.up /\ engine.camera \in {"ok", "no_yolo"}

\* CameraVisionModule.cleanup through MLEngine.cleanup: self.cap.release()
Cleanup(engine) ==
    IF CapOpen(engine) THEN [engine EXCEPT !.camera = "released"] ELSE engine

\* shutdown_event: ml_engine.cleanup() when ml_engine is set.  It is a
\* coroutine of the event loop, so it does not run inside a detect() call.
\* The transports of the UDP endpoints are not touched: the listener tasks
\* dropped what create_datagram_endpoint returned.
Shutdown ==
    /\ booted
    /\ ~shut_down
    /\ vis_pc # "detect"
    /\ shut_down' = TRUE
    /\ ml_engine' = IF ml_engine.up THEN Cleanup(ml_engine) ELSE ml_engine
    /\ UNCHANGED <<booted, config, listeners, camera_task, init_failed,
                   socket, vis_pc, handled, published>>
    /\ UNCHANGED <<fusionVars, serverVars, adapterVars, visionVars, wireVars, loopVars>>

StartupNext ==
    \/ Startup
    \/ Shutdown
    \/ Arrive
    \/ Esp8266DatagramReceived
    \/ Esp32DatagramReceived
    \/ DetectBegin
    \/ DetectEnd

SpecStartup == BootInit /\ [][StartupNext]_vars

\* ------------------------------------------------------- the wire format
\* A Python value with its type: t is the type's name, and the value is in
\* b (bool, numpy.bool_), n (int, numpy.int64; float in tenths), s (str) or
\* l (the elements of a list or tuple).
PyVal(t, b, n, str, l) == [t |-> t, b |-> b, n |-> n, s |-> str, l |-> l]
PyBool(b) == PyVal("bool", b, 0, "", <<>>)
NpBool(b) == PyVal("numpy.bool_", b, 0, "", <<>>)
PyInt(n) == PyVal("int", FALSE, n, "", <<>>)
NpInt(n) == PyVal("numpy.int64", FALSE, n, "", <<>>)
PyFloat(n) == PyVal("float", FALSE, n, "", <<>>)
PyStr(str) == PyVal("str", FALSE, 0, str, <<>>)
PyNone == PyVal("NoneType", FALSE, 0, "", <<>>)
PyList(l) == PyVal("list", FALSE, 0, "", l)
PyTuple(l) == PyVal("tuple", FALSE, 0, "", l)

\* The dataclass with its defaults (ml_engine.py 32-58); source is the
\* enum member's value.
WireEvent(ts, src, motion, conf) ==
    [timestamp |-> PyFloat(ts), source |-> src, motion_detected |-> motion,
     confidence |-> conf,
     bboxes |-> PyNone, class_ids |-> PyNone, class_names |-> PyNone,
     tracking_ids |-> PyNone, poses |-> PyNone,
     rssi |-> PyNone, rssi_variance |-> PyNone, csi_data |-> PyNone,
     activity |-> PyStr("UNKNOWN"), activity_confidence |-> PyFloat(0),
     out_of_frame |-> PyBool(FALSE), handoff_active |-> PyBool(FALSE)]

MaxStamp == 3               \* timestamps 0..MaxStamp
Stamps == 0..MaxStamp
WireConfs == {0, 5, 10}     \* 0.0, 0.5, 1.0
WireRssi == {-50, -60}

\* process_rssi with fewer than 5 samples (line 279): the literal False
RssiEarlyEvents ==
    {[WireEvent(t, "wifi_rssi", PyBool(FALSE), PyFloat(0))
        EXCEPT !.rssi = PyFloat(r)] : t \in Stamps, r \in WireRssi}

\* process_rssi from 5 samples on (lines 281-293): motion is the result of
\* comparing numpy.var's numpy.float64 with the threshold, a numpy.bool_;
\* confidence and the variance go through float()
RssiFullEvents ==
    {[WireEvent(t, "wifi_rssi", NpBool(m), PyFloat(c))
        EXCEPT !.rssi = PyFloat(r), !.rssi_variance = PyFloat(c * 2),
               !.activity = PyStr(IF m THEN "WALKING" ELSE "STILL")] :
        t \in Stamps, m \in BOOLEAN, c \in WireConfs, r \in WireRssi}

\* process_csi (lines 322-333): motion is a numpy.bool_ on every call
CsiEvents ==
    {[WireEvent(t, "wifi_csi", NpBool(m), PyFloat(c))
        EXCEPT !.csi_data = PyList(<<PyFloat(0), PyFloat(c)>>),
               !.activity = PyStr(IF m THEN "MOTION" ELSE "CLEAR")] :
        t \in Stamps, m \in BOOLEAN, c \in WireConfs}

\* process_packet (lines 348-350): with at most 5 packets the variance is the
\* int 0 and motion the bool False; from 6 packets on a numpy.bool_
PktEvents ==
    {WireEvent(t, "wifi_monitor", m, PyFloat(5)) :
        t \in Stamps, m \in {PyBool(FALSE), NpBool(FALSE), NpBool(TRUE)}}

\* detect() without a box (lines 156-160, 218-229): empty lists
CamEmptyEvents ==
    {[WireEvent(t, "camera", PyBool(FALSE), PyFloat(0))
        EXCEPT !.bboxes = PyList(<<>>), !.class_ids = PyList(<<>>),
               !.class_names = PyList(<<>>), !.tracking_ids = PyList(<<>>),
               !.poses = PyList(<<>>)] : t \in Stamps}

\* detect() with one box (lines 164-178): the corners come from
\* box.xyxy[0].cpu().numpy().astype(int), four numpy.int64, and go into
\* bboxes as they are; class id and confidence go through int() and float()
CamBoxEvents ==
    {[WireEvent(t, "camera", PyBool(TRUE), PyFloat(c))
        EXCEPT !.bboxes = PyList(<<PyTuple(<<NpInt(0), NpInt(0), NpInt(2),
                                             NpInt(1)>>)>>),
               !.class_ids = PyList(<<PyInt(0)>>),
               !.class_names = PyList(<<PyStr("person")>>),
               !.tracking_ids = PyList(<<PyInt(0)>>),
               !.poses = PyList(<<PyNone>>)] :
        t \in Stamps, c \in WireConfs}

\* fuse's own event (line 376)
LostEvents == {WireEvent(t, "lost", PyBool(FALSE), PyFloat(0)) : t \in Stamps}

\* bool(v) of a bool or numpy.bool_
Truth(v) == v.b

\* What fuse returns for its arguments: a vision event with motion re-tagged
\* (lines 360-364), a WiFi event with motion flagged and re-tagged (lines
\* 369-374), or an argument as it is.
FusedEvents ==
    {[e EXCEPT !.source = "fusion"] : e \in CamBoxEvents}
      \cup {[e EXCEPT !.source = "fusion", !.handoff_active = PyBool(TRUE),
                      !.out_of_frame = PyBool(TRUE)] :
                e \in {x \in RssiFullEvents \cup CsiEvents \cup PktEvents :
                           Truth(x.motion_detected)}}

WireEvents ==
    RssiEarlyEvents \cup RssiFullEvents \cup CsiEvents \cup PktEvents
      \cup CamEmptyEvents \cup CamBoxEvents \cup LostEvents \cup FusedEvents

\* x or []: x unless it is None or an empty list
OrEmptyList(x) ==
    IF x.t = "NoneType" \/ (x.t = "list" /\ x.l = <<>>) THEN PyList(<<>>)
    ELSE x

\* serialize_detection_result
serialize_detection_result(result) ==
    [timestamp |-> result.timestamp,
     source |-> PyStr(result.source),
     motion |-> result.motion_detected,
     confidence |-> result.confidence,
     bboxes |-> OrEmptyList(result.bboxes),
     class_ids |-> OrEmptyList(result.class_ids),
     class_names |-> OrEmptyList(result.class_names),
     tracking_ids |-> OrEmptyList(result.tracking_ids),
     poses |-> OrEmptyList(result.poses),
     rssi |-> result.rssi,
     rssi_var |-> result.rssi_variance,
     csi |-> OrEmptyList(result.csi_data),
     activity |-> result.activity,
     activity_conf |-> result.activity_confidence,
     out_of_frame |-> result.out_of_frame,
     handoff_active |-> result.handoff_active]

\* The types json's encoder writes: bool, int, float, str, None, list and
\* tuple.  numpy.bool_ and numpy.int64 are subclasses of none of them, and
\* the encoder raises TypeError for them.
JsonTypes == {"bool", "int", "float", "str", "NoneType", "list", "tuple"}

RECURSIVE JsonOk(_)
JsonOk(v) ==
    /\ v.t \in JsonTypes
    /\ \A k \in 1..Len(v.l) : JsonOk(v.l[k])

\* The JSON value written for v: true/false, a number with or without a
\* fraction, a string, null, or an array (for a list and for a tuple).
RECURSIVE Encode(_)
Encode(v) ==
    [j |-> CASE v.t = "bool" -> "boolean"
             [] v.t = "int" -> "integer"
             [] v.t = "float" -> "real"
             [] v.t = "str" -> "string"
             [] v.t = "NoneType" -> "null"
             [] OTHER -> "array",
     b |-> v.b, n |-> v.n, s |-> v.s,
     l |-> [k \in 1..Len(v.l) |-> Encode(v.l[k])]]

\* json.loads of one value
RECURSIVE Decode(_)
Decode(x) ==
    PyVal(CASE x.j = "boolean" -> "bool"
            [] x.j = "integer" -> "int"
            [] x.j = "real" -> "float"
            [] x.j = "string" -> "str"
            [] x.j = "null" -> "NoneType"
            [] OTHER -> "list",
          x.b, x.n, x.s, [k \in 1..Len(x.l) |-> Decode(x.l[k])])

\* json.dumps(message) of a dict: the object, or TypeError
dumps(message) ==
    LET ok == \A k \in DOMAIN message : JsonOk(message[k])
    IN  [ok |-> ok,
         obj |-> IF ok THEN [k \in DOMAIN message |-> Encode(message[k])]
                 ELSE <<>>]

loads(obj) == [k \in DOMAIN obj |-> Decode(obj[k])]

\* An event is serialized as broadcast_detection does it (lines 198, 204),
\* and the text is parsed back.
Serialize ==
    \E ev \in WireEvents :
        LET d == dumps(serialize_detection_result(ev))
        IN  /\ wire' = [called |-> TRUE, ev |-> ev, raised |-> ~d.ok,
                        parsed |-> IF d.ok THEN loads(d.obj) ELSE <<>>]
            /\ UNCHANGED <<fusionVars, serverVars, adapterVars, visionVars,
                           startVars, loopVars>>

SpecWire == Init /\ [][Serialize]_vars

\* ================================================================ claims
\* The last cycle, read from the log.
VisionMotion == cycle.called /\ ~IsNone(cycle.cam) /\ cycle.cam.motion_detected
NoDetection == cycle.called /\ ~IsNone(cycle.cam) /\ ~cycle.cam.motion_detected
WPositive == ~IsNone(cycle.wifi) /\ cycle.wifi.motion_detected
\* The handoff condition of the last cycle, from its inputs and the timer.
HandoffCond ==
    NoDetection /\ WPositive /\ (cycle.t - handoff_start) > HandoffDelay
\* The last cycle returned the WiFi object flagged as a handoff.
ReturnedHandoff ==
    /\ cycle.from = "wifi" /\ cycle.res.source = "fusion"
    /\ cycle.res.handoff_active /\ cycle.res.out_of_frame

\* C1: a cycle with V present and V.motionDetected returns V re-tagged FUSION
\* and leaves handoff_start None, whatever W is and whatever came before.
C1_Reacquisition ==
    VisionMotion =>
        /\ cycle.from = "cam"
        /\ cycle.res = [cycle.cam EXCEPT !.source = "fusion"]
        /\ handoff_start = NoTime

\* C1 witness: vision motion arrives while a handoff was active (timer past
\* the delay, W positive and already flagged by an earlier handoff).
C1_Witness ==
    /\ VisionMotion /\ WPositive /\ cycle.wifi.handoff_active
    /\ cycle.hs_before # NoTime /\ (cycle.t - cycle.hs_before) > HandoffDelay
    /\ cycle.res.source = "fusion" /\ handoff_start = NoTime

\* C2 as stated: with V without motion on every cycle since T = first_nodet
\* and W positive throughout, the cycle returns V while elapsed < delay and
\* returns W flagged handoffActive once elapsed >= delay.
C2_HandoffAtDelay ==
    (NoDetection /\ steady) =>
        IF (cycle.t - first_nodet) < HandoffDelay
        THEN cycle.from = "cam" /\ cycle.res = cycle.cam
        ELSE cycle.from = "wifi" /\ cycle.res.handoff_active

\* C2 amended: V is returned while elapsed <= delay; W flagged handoffActive
\* is returned on every cycle whose elapsed time strictly exceeds the delay.
C2_HandoffAfterDelay ==
    (NoDetection /\ steady) =>
        IF (cycle.t - first_nodet) <= HandoffDelay
        THEN cycle.from = "cam" /\ cycle.res = cycle.cam
        ELSE cycle.from = "wifi" /\ cycle.res.handoff_active

\* C2 witness: a steady no-detection run whose elapsed time passed the delay
\* and handed off.
C2_Witness ==
    /\ NoDetection /\ steady /\ (cycle.t - first_nodet) > HandoffDelay
    /\ cycle.from = "wifi" /\ cycle.res.handoff_active

\* C3 as stated: the cycle returns W tagged FUSION with handoffActive and
\* outOfFrame exactly when the handoff condition holds in that cycle, and
\* no other cycle's result carries either flag.
C3_HandoffExactlyWhen ==
    cycle.called =>
        /\ ReturnedHandoff <=> HandoffCond
        /\ ~HandoffCond => ~cycle.res.handoff_active /\ ~cycle.res.out_of_frame

\* C4 as stated: within a run of consecutive V-present, no-motion cycles
\* handoff_start is the time of the run's first cycle.
C4_TimerIsRunStart ==
    run_start # NoTime => handoff_start = run_start

\* C4 amended: handoff_start is None or the time of the first no-detection
\* cycle since the most recent vision-motion cycle (or start); a run that
\* follows V-absent cycles keeps the earlier time; a handoff never fires
\* sooner than the delay after that first no-detection cycle.
C4_TimerIsFirstNoDetection ==
    /\ handoff_start = first_nodet
    /\ (cycle.called /\ cycle.from = "wifi" /\ ~IsNone(cycle.cam)) =>
           (cycle.t - first_nodet) > HandoffDelay

\* C4 witness: a no-detection run that began after a V-absent gap, the timer
\* still holding the earlier run's start.
C4_Witness ==
    /\ NoDetection /\ run_start # NoTime /\ first_nodet # NoTime
    /\ first_nodet < run_start /\ handoff_start = first_nodet

\* C5: a cycle that is neither vision-motion nor a fired handoff returns V
\* unchanged if V is present, else W unchanged if W is present, else the LOST
\* event (no motion, confidence 0).
C5_DefaultBranch ==
    (cycle.called /\ ~VisionMotion /\ ~HandoffCond) =>
        /\ ~IsNone(cycle.cam) => cycle.from = "cam" /\ cycle.res = cycle.cam
        /\ (IsNone(cycle.cam) /\ ~IsNone(cycle.wifi)) =>
               /\ cycle.from = "wifi" /\ cycle.res = cycle.wifi
        /\ (IsNone(cycle.cam) /\ IsNone(cycle.wifi)) =>
               /\ cycle.from = "new" /\ cycle.res.source = "lost"
               /\ ~cycle.res.motion_detected /\ cycle.res.confidence = 0
        /\ cycle.wifi_after = cycle.wifi

\* C5 witness: V absent and W present, so the WiFi event is passed through.
C5_Witness ==
    /\ cycle.called /\ IsNone(cycle.cam) /\ ~IsNone(cycle.wifi)
    /\ cycle.from = "wifi" /\ cycle.res = cycle.wifi

\* C6: the returned confidence and motionDetected are those of the selected
\* input; the synthetic event (0.0 / false) is produced exactly when both
\* inputs are None.
C6_NoFabrication ==
    cycle.called =>
        /\ cycle.from \in {"cam", "wifi", "new"}
        /\ cycle.from = "cam" =>
               /\ ~IsNone(cycle.cam)
               /\ cycle.res.confidence = cycle.cam.confidence
               /\ cycle.res.motion_detected = cycle.cam.motion_detected
        /\ cycle.from = "wifi" =>
               /\ ~IsNone(cycle.wifi)
               /\ cycle.res.confidence = cycle.wifi.confidence
               /\ cycle.res.motion_detected = cycle.wifi.motion_detected
        /\ cycle.from = "new" <=> (IsNone(cycle.cam) /\ IsNone(cycle.wifi))
        /\ cycle.from = "new" =>
               cycle.res.confidence = 0 /\ ~cycle.res.motion_detected

\* C6 witness: a handoff that carries the WiFi event's own, partial
\* confidence through.
C6_Witness ==
    /\ cycle.called /\ cycle.from = "wifi" /\ cycle.res.handoff_active
    /\ cycle.res.confidence = cycle.wifi.confidence
    /\ cycle.res.confidence < ConfScale

\* ------------------------------------------------------- pipeline claims
\* The detection events (broadcast numbers) a connection received, in order;
\* 0 is the status object.
Events(c) == SelectSeq(inbox[c], LAMBDA m : m > 0)

\* C7 as stated: in a camera-loop fusion cycle the W given to fuse is the
\* event of the most recent WiFi sample an adapter processed, when there is
\* one.
C7_FusesLatestWifi ==
    (cycle.called /\ ~IsNone(cycle.latest_w)) => cycle.wifi = cycle.latest_w

\* C8 as stated: every detection event a subscriber receives came out of a
\* fuse cycle.
C8_OnlyFusedDelivered ==
    \A c \in Clients : \A k \in 1..Len(Events(c)) : tasks[Events(c)[k]].fused

\* C9 as stated: a subscriber that stays live receives every event published
\* while it is registered, once each, in the order the publishes were
\* initiated.
C9_PerSubscriberFifo ==
    \A c \in Clients :
        conn[c] = "open" =>
            /\ \A i, j \in 1..Len(Events(c)) :
                   i < j => Events(c)[i] < Events(c)[j]
            /\ \A p \in 1..Len(tasks) :
                   (Finished(tasks[p]) /\ joined[c] < p) =>
                       InSeq(Events(c), p)

\* C10 as stated: a subscriber whose write failed during a publish is out of
\* the registry once that publish has ended.
C10_DeadRemovedAtEnd ==
    \A p \in 1..Len(tasks) :
        Finished(tasks[p]) =>
            \A k \in 1..Len(tasks[p].dead) :
                ~InSeq(websocket_clients, tasks[p].dead[k])

\* C11: every broadcast that has ended delivered its frame to each connection
\* that was registered before the broadcast was initiated and is still open,
\* whatever removals happened while the broadcast iterated over the registry.
C11_NoSkippedDelivery ==
    \A p \in 1..Len(tasks) : \A c \in Clients :
        (Finished(tasks[p]) /\ joined[c] < p /\ conn[c] = "open"
             /\ InSeq(websocket_clients, c)) =>
            InSeq(inbox[c], p)

\* C12: no broadcast and no endpoint handler ends in list.remove raising
\* ValueError, and no connection is in the registry twice.
C12_RegistrySafe ==
    /\ \A p \in 1..Len(tasks) : tasks[p].st # "error"
    /\ \A c \in Clients : ep[c] # "error"
    /\ \A i, j \in 1..Len(websocket_clients) :
           i # j => websocket_clients[i] # websocket_clients[j]

\* Broadcast p is suspended in a send_text to a stalled connection.
WaitsOnStalled(p) ==
    /\ p <= Len(tasks)
    /\ tasks[p].st = "running"
    /\ tasks[p].pend # 0
    /\ conn[tasks[p].pend] = "stalled"

\* C13: when a broadcast waits on a connection whose write never completes,
\* every other connection that is registered and open still eventually gets
\* the frame of that broadcast, and the camera loop eventually leaves its
\* broadcast and sleeps until its next pass.
C13_SlowSubscriberNoStall ==
    /\ \A p \in 1..MaxPub : \A c \in Clients :
           (WaitsOnStalled(p) /\ joined[c] < p /\ conn[c] = "open"
                /\ InSeq(websocket_clients, c))
               ~> (InSeq(inbox[c], p) \/ conn[c] # "open")
    /\ \A p \in 1..MaxPub :
           (WaitsOnStalled(p) /\ tasks[p].origin = "cam") ~> (cam_pc = "sleep")

\* The wire formats: "RSS:<integer>", and a timestamp followed by at least
\* NSub amplitudes, all numeric.
WellFormedRssi(msg) ==
    msg.head = "RSS" /\ Len(msg.parts) = 1 /\ msg.parts[1].num
WellFormedCsi(msg) ==
    Len(msg) >= NSub + 1 /\ \A k \in 1..(NSub + 1) : msg[k].num

\* C14: a malformed datagram on either transport is discarded: the adapter
\* is not called, its window is as it was, and no broadcast task is created.
C14_MalformedDiscarded ==
    /\ (rx.src = "rssi" /\ ~WellFormedRssi(rx.msg)) =>
           (~rx.called /\ ~rx.task /\ rssi_window = rx.before)
    /\ (rx.src = "csi" /\ ~WellFormedCsi(rx.msg)) =>
           (~rx.called /\ ~rx.task /\ csi_window = rx.before)

\* C15: the fine-signal listener hands the adapter a sample only for a
\* datagram of at least NSub + 1 fields, and every sample it hands over has
\* exactly NSub amplitudes; a shorter datagram leaves the window alone.
C15_FineSignalFieldCount ==
    rx.src = "csi" =>
        /\ rx.called => (Len(rx.msg) >= NSub + 1 /\ Len(rx.sample) = NSub)
        /\ Len(rx.msg) < NSub + 1 => (~rx.called /\ csi_window = rx.before)

RECURSIVE SeqSumSq(_)
SeqSumSq(s) == IF s = <<>> THEN 0 ELSE Head(s) * Head(s) + SeqSumSq(Tail(s))

\* Population variance of a non-empty sequence, as mean of squares minus
\* square of mean.
PopVariance(s) ==
    <<Len(s) * SeqSumSq(s) - SeqSum(s) * SeqSum(s), Len(s) * Len(s)>>

\* The last call was process_rssi.
RssiCalled == rx.src = "rssi" /\ rx.called

\* C16: when the window holds at least 5 samples after process_rssi, motion
\* is reported exactly when the population variance of the window is
\* strictly above the threshold, the activity is WALKING with motion and
\* STILL without, and the confidence is min(variance / 20, 1).
C16_CoarseMotionIffVariance ==
    (RssiCalled /\ Len(rssi_window) >= MinSamples) =>
        LET v == PopVariance(rssi_window)
            above == v[1] > VarianceThreshold * v[2]
        IN  /\ rx.res.motion_detected = above
            /\ rx.res.activity = IF above THEN "WALKING" ELSE "STILL"
            /\ RatEq(rx.res.rssi_variance, v)
            /\ IF v[1] > RssiNorm * v[2]
               THEN RatEq(rx.res.confidence, <<1, 1>>)
               ELSE RatEq(rx.res.confidence, <<v[1], RssiNorm * v[2]>>)

\* C16 witness: a full-enough window whose variance equals the threshold,
\* reported as no motion.
C16_Witness ==
    /\ RssiCalled /\ Len(rssi_window) >= MinSamples
    /\ RatEq(PopVariance(rssi_window), <<VarianceThreshold, 1>>)
    /\ ~rx.res.motion_detected

\* C17: while the window holds fewer than 5 samples after the push,
\* process_rssi returns no motion, confidence 0, the raw value, no variance
\* and activity UNKNOWN, and the sample is in the window.
C17_BelowMinimumSamples ==
    (RssiCalled /\ Len(rssi_window) < MinSamples) =>
        /\ ~rx.res.motion_detected
        /\ RatEq(rx.res.confidence, <<0, 1>>)
        /\ rx.res.rssi = <<rx.sample[1], 1>>
        /\ rx.res.rssi_variance = NoValue
        /\ rx.res.activity = "UNKNOWN"
        /\ rssi_window = Append(rx.before, rx.sample[1])

\* C17 witness: four samples that differ, the fourth just processed.
C17_Witness ==
    /\ RssiCalled /\ Len(rssi_window) = MinSamples - 1
    /\ \E i, j \in 1..Len(rssi_window) : rssi_window[i] # rssi_window[j]

\* C18: after every call the window of each adapter is no longer than its
\* configured capacity.
C18_WindowCapacity ==
    /\ Len(rssi_window) <= WindowSize
    /\ Len(csi_window) <= CsiWindowSize
    /\ Len(packets) <= PacketWindow

\* C18 witness: the fine-signal adapter has processed more samples than its
\* window can hold.
C18_Witness ==
    /\ rx.src = "csi" /\ rx.called
    /\ csi_count > CsiWindowSize
    /\ Len(csi_window) = CsiWindowSize

\* The last min(Len(s), n) elements of s, in order.
LastN(s, n) == IF Len(s) <= n THEN s ELSE SubSeq(s, Len(s) - n + 1, Len(s))

\* C19: a window holds exactly the last min(n, capacity) of the n samples
\* pushed so far, in arrival order, and the variance process_rssi reports is
\* the variance of those samples only.
C19_FifoEviction ==
    /\ rssi_window = LastN(rssi_pushed, WindowSize)
    /\ packets = LastN(pkt_pushed, PacketWindow)
    /\ (rx.src = "csi" /\ rx.called) =>
           csi_window = LastN(Append(rx.before, rx.sample), CsiWindowSize)
    /\ (RssiCalled /\ Len(rssi_pushed) >= MinSamples) =>
           RatEq(rx.res.rssi_variance,
                 PopVariance(LastN(rssi_pushed, WindowSize)))

\* C19 witness: capacity + 1 values pushed, the first one different from
\* all the others; the variance reported is that of the others alone.
C19_Witness ==
    /\ RssiCalled
    /\ Len(rssi_pushed) = WindowSize + 1
    /\ \A k \in 2..Len(rssi_pushed) : rssi_pushed[k] # rssi_pushed[1]
    /\ RatEq(rx.res.rssi_variance, <<0, 1>>)

\* The last call was process_csi.
CsiCalled == rx.src = "csi" /\ rx.called

\* C20: what process_csi returns is a function of the current sample alone:
\* motion exactly when the variance of its components is above the
\* threshold, activity MOTION or CLEAR accordingly, confidence
\* min(variance, 1), whatever the window held before.
C20_FineSignalHistoryIndependent ==
    CsiCalled =>
        LET v == PopVariance(rx.sample)
            above == v[1] * MotionThresholdDen > MotionThresholdNum * v[2]
        IN  /\ rx.res.motion_detected = above
            /\ rx.res.activity = IF above THEN "MOTION" ELSE "CLEAR"
            /\ IF v[1] > v[2]
               THEN RatEq(rx.res.confidence, <<1, 1>>)
               ELSE RatEq(rx.res.confidence, v)

\* C20 witness: the sample arrives in a window that already holds a
\* different sample, and the variance over the whole window is not the
\* variance of the sample.
C20_Witness ==
    /\ CsiCalled
    /\ rx.before # <<>>
    /\ ~RatEq(PopVariance(Flatten(csi_window)), PopVariance(rx.sample))
    /\ rx.res.motion_detected

\* The last call was process_packet.
PktCalled == rx.src = "pkt" /\ rx.called

\* C21: process_packet reports motion exactly when the window holds at
\* least 6 samples and their variance is above 10; never with 5 or fewer;
\* the confidence is always 0.5.
C21_RawPacketMotion ==
    PktCalled =>
        LET v == PopVariance(packets)
        IN  /\ rx.res.motion_detected =
                   (Len(packets) >= 6 /\ v[1] > 10 * v[2])
            /\ Len(packets) <= 5 => ~rx.res.motion_detected
            /\ RatEq(rx.res.confidence, <<1, 2>>)

\* C21 witness: five samples whose variance is above 10, reported as no
\* motion.
C21_Witness ==
    /\ PktCalled /\ Len(packets) = 5
    /\ PopVariance(packets)[1] > 10 * PopVariance(packets)[2]
    /\ ~rx.res.motion_detected

\* The call before the last one, and the id it returned.
PrevDet == dets[Len(dets) - 1]
NearPrev == Dist2(PrevDet.centroid, det.centroid) < MatchDist * MatchDist

\* The last detection is at the matching radius or farther from every
\* tracked object, and got an id no earlier detection got.
FarFromAll ==
    \A k \in 1..Len(det.before) :
        Dist2(det.before[k].centroid, det.centroid) >= MatchDist * MatchDist
FreshId == \A k \in 1..(Len(dets) - 1) : dets[k].id # det.id

\* C22 as stated: a detection whose centroid is nearer than the matching
\* radius to the centroid of the detection just before it gets the same id,
\* and a detection far from every tracked object gets a fresh id.
C22_SameIdWhenNearPrevious ==
    det.called =>
        /\ (Len(dets) >= 2 /\ NearPrev) => det.id = PrevDet.id
        /\ FarFromAll => FreshId

\* No other tracked object is nearer to the last centroid than the previous
\* detection's centroid, or as near and inserted earlier.
PrevIsNearest ==
    \A k \in 1..Len(det.before) :
        LET o == det.before[k]
            dp == Dist2(PrevDet.centroid, det.centroid)
            d2 == Dist2(o.centroid, det.centroid)
        IN  o.id # PrevDet.id => (d2 > dp \/ (d2 = dp /\ o.id > PrevDet.id))

\* C22 amended: the same id is kept when, in addition, the previous
\* detection's object is the nearest one (the earliest among equally near).
C22_SameIdWhenPreviousNearest ==
    det.called =>
        /\ (Len(dets) >= 2 /\ NearPrev /\ PrevIsNearest) => det.id = PrevDet.id
        /\ FarFromAll => FreshId

\* C22 witness: the previous detection's object is the nearest of two
\* objects within the matching radius, and the id is kept.
C22_Witness ==
    /\ det.called /\ Len(dets) >= 2 /\ NearPrev /\ PrevIsNearest
    /\ \E k \in 1..Len(det.before) :
           /\ det.before[k].id # PrevDet.id
           /\ Dist2(det.before[k].centroid, det.centroid) < MatchDist * MatchDist
    /\ det.id = PrevDet.id

\* Positions, in the dict as it was before the last call, of the objects
\* nearer to the detection's centroid than the matching radius.
NearSet ==
    {k \in 1..Len(det.before) :
        Dist2(det.before[k].centroid, det.centroid) < MatchDist * MatchDist}
DistAt(k) == Dist2(det.before[k].centroid, det.centroid)

\* C23: when some tracked object is within the matching radius, the id
\* returned is that of an object at minimum distance, the earliest inserted
\* among those at that distance, and the dict differs from before only in
\* that object's centroid and last-seen time.
C23_NearestEarliestMatch ==
    (det.called /\ NearSet # {}) =>
        \E k \in NearSet :
            /\ det.before[k].id = det.id
            /\ \A j \in NearSet :
                   DistAt(k) < DistAt(j) \/ (DistAt(k) = DistAt(j) /\ k <= j)
            /\ tracked_objects =
                   [det.before EXCEPT ![k] = [id |-> det.id,
                                              centroid |-> det.centroid,
                                              last_seen |-> Len(dets)]]
            /\ tracking_id_counter = det.counter_before

\* C23 witness: two tracked objects at the same distance from the
\* detection, both within the radius; the earlier one is matched.
C23_Witness ==
    /\ det.called
    /\ \E j, k \in NearSet :
           /\ j < k /\ DistAt(j) = DistAt(k)
           /\ \A i \in NearSet : DistAt(j) <= DistAt(i)
           /\ det.id = det.before[j].id

Keys(items) == {items[k].id : k \in 1..Len(items)}

\* C24: the keys of tracked_objects are exactly 0 .. counter - 1, one entry
\* each; a call removes no key and does not lower the counter; a call that
\* creates an entry gives it an id that no earlier call returned.
C24_TrackedNeverDeleted ==
    /\ Keys(tracked_objects) = 0..(tracking_id_counter - 1)
    /\ Len(tracked_objects) = tracking_id_counter
    /\ det.called =>
           /\ Keys(det.before) \subseteq Keys(tracked_objects)
           /\ tracking_id_counter >= det.counter_before
           /\ Len(tracked_objects) > Len(det.before) =>
                  (FreshId /\ det.id \notin Keys(det.before))

\* C24 witness: an entry is created after an earlier call matched an
\* existing one.
C24_Witness ==
    /\ det.called
    /\ Len(tracked_objects) > Len(det.before)
    /\ Len(dets) > tracking_id_counter
    /\ tracking_id_counter >= 2

\* C25: on "get_latest" with something published the handler sends back one
\* frame, which carries an event that came out of fuse; with nothing published
\* it sends nothing; any other text gets no reply.
C25_GetLatestResendsFused ==
    asked.n > 0 =>
        /\ (asked.text = "get_latest" /\ asked.latest # 0) =>
               /\ asked.sent
               /\ tasks[asked.latest].fused
        /\ (asked.text = "get_latest" /\ asked.latest = 0) => ~asked.sent
        /\ asked.text # "get_latest" => ~asked.sent

\* C26: the first frame a connection receives is the status object, and no
\* detection frame comes before it, also when a broadcast is under way while
\* the connection registers.
C26_StatusFirst ==
    \A c \in Clients :
        /\ conn[c] # "none" => inbox[c] # <<>>
        /\ inbox[c] # <<>> => inbox[c][1] = 0

\* C26 witness: a connection registered while a broadcast was under way and
\* got that broadcast's frame, after its status object.
C26_Witness ==
    \E c \in Clients : \E p \in 1..Len(tasks) :
        /\ p <= joined[c]
        /\ Len(inbox[c]) >= 2
        /\ inbox[c][1] = 0
        /\ inbox[c][2] = p

\* A datagram its listener accepts
WellFormedFor(port, m) == port \in ListenedSources /\ Accepts(port, m)

\* C27: when the initialisation of one source failed at startup, that source
\* never hands an event to the broadcast, and every well-formed datagram of
\* another source that reaches that source's handler is fed to its adapter
\* and published.
C27_FailureDisablesOnlyThatSource ==
    init_failed.src # "none" =>
        /\ init_failed.src \notin published
        /\ (/\ handled.by = "handler"
            /\ handled.port # init_failed.src
            /\ WellFormedFor(handled.port, handled.msg))
               => handled.fed = handled.port

\* C28: while the camera task is inside frame acquisition or the detector
\* call, a datagram waiting on a listener's socket can be handed to its
\* handler.
C28_VisionDoesNotBlockIngestion ==
    \A port \in ListenedSources :
        (vis_pc = "detect" /\ port \in listeners /\ socket[port] # <<>>)
            => ENABLED DatagramReceived(port)

WifiSourcesConfigured == {"esp8266", "esp32", "wifi_adapter"}

\* C29: after a startup without failure every WiFi source the configuration
\* enables has its ingestion task, and a raw-packet datagram that arrived
\* with the raw-packet source enabled was fed to the raw-packet adapter.
C29_EveryTransportHasListener ==
    (booted /\ init_failed = NoFailure) =>
        /\ \A s \in WifiSourcesConfigured : config[s] => s \in listeners
        /\ (config["wifi_adapter"] /\ handled.msg = WifiDatagram)
               => handled.fed = "wifi_adapter"

\* c is a number in [0, 1]
InUnit(c) == c[2] > 0 /\ 0 <= c[1] /\ c[1] <= c[2]

\* C30: every event an adapter returns has a confidence in [0, 1].
C30_ConfidenceInRange ==
    rx.called => InUnit(rx.res.confidence)

\* C31: once shutdown_event has run the camera capture is released and no
\* UDP endpoint opened at startup is still open.
C31_ShutdownReleases ==
    shut_down => (~CapOpen(ml_engine) /\ listeners = {})

WireKeys ==
    {"timestamp", "source", "motion", "confidence", "bboxes", "class_ids",
     "class_names", "tracking_ids", "poses", "rssi", "rssi_var", "csi",
     "activity", "activity_conf", "out_of_frame", "handoff_active"}

ListKeys ==
    {"bboxes", "class_ids", "class_names", "tracking_ids", "poses", "csi"}

\* The event has no numpy value in it.
PlainEvent(ev) == \A k \in DOMAIN ev \ {"source"} : JsonOk(ev[k])

\* C32: every event serializes, and the parsed object has the event's motion,
\* confidence, activity and handoff_active, all 16 keys, and a list under
\* every list-valued key.
C32_WireRoundTrip ==
    wire.called =>
        /\ ~wire.raised
        /\ wire.parsed.motion = PyBool(Truth(wire.ev.motion_detected))
        /\ wire.parsed.confidence = wire.ev.confidence
        /\ wire.parsed.activity = wire.ev.activity
        /\ wire.parsed.handoff_active = wire.ev.handoff_active
        /\ DOMAIN wire.parsed = WireKeys
        /\ \A k \in ListKeys : wire.parsed[k].t = "list"

\* C33: an event fuse returns with handoff_active or out_of_frame set is
\* returned by a cycle in which the handoff condition holds.
C33_HandoffFlagsNeverStale ==
    (cycle.called /\ (cycle.res.handoff_active \/ cycle.res.out_of_frame))
        => HandoffCond

\* The last cycle was called without a vision event.
VisionAbsent == cycle.called /\ IsNone(cycle.cam)

\* C34: a cycle without a vision event leaves handoff_start as it was and
\* does not return a handoff: what it returns is not flagged handoff_active.
C34_AbsentVisionLeavesTimer ==
    VisionAbsent =>
        /\ handoff_start = cycle.hs_before
        /\ ~cycle.res.handoff_active

\* The object the handoff branch returns for the last cycle's W
Flagged(w) ==
    [w EXCEPT !.handoff_active = TRUE, !.out_of_frame = TRUE,
              !.source = "fusion"]

\* C35: once a handoff has been returned, handoff_start keeps its value on
\* every cycle in which vision does not report motion, and every cycle with
\* V present without motion returns W flagged as a handoff when W reports
\* motion and V itself when W is absent or reports none.
C35_FiredHandoffKeepsTimer ==
    /\ (cycle.called /\ cycle.fired_before /\ ~VisionMotion) =>
           /\ cycle.hs_before # NoTime
           /\ handoff_start = cycle.hs_before
           /\ fired
    /\ (NoDetection /\ cycle.fired_before) =>
           /\ WPositive => (cycle.from = "wifi" /\ cycle.res = Flagged(cycle.wifi))
           /\ ~WPositive => (cycle.from = "cam" /\ cycle.res = cycle.cam)

\* C35 witness: after a handoff the cycle before the last returned V (W was
\* absent or negative), and the last cycle, with W positive again, hands off
\* at once on the old timer.
C35_Witness ==
    /\ NoDetection /\ cycle.fired_before /\ WPositive
    /\ cycle.from_before = "cam"
    /\ cycle.res.handoff_active
    /\ handoff_start = cycle.hs_before

\* broadcast p has taken its first step (line 195 has run for it)
Started(p) == tasks[p].st # "created"

\* The broadcast that started last: tasks start in the order in which they
\* were made, so it is the started one with the largest number (0: none).
LastStarted ==
    IF \E p \in 1..Len(tasks) : Started(p)
    THEN CHOOSE p \in 1..Len(tasks) :
             Started(p) /\ \A q \in 1..Len(tasks) : Started(q) => q <= p
    ELSE 0

\* latest_detection is the event of the broadcast that started last, and is
\* None exactly as long as no broadcast has started.
C36_CacheIsLastStarted == latest_detection = LastStarted

\* C36: latest_detection is the event of the most recently started broadcast
\* (None only before the first one), and a get_latest received when it is
\* set is answered with that event.
C36_LatestCache ==
    /\ C36_CacheIsLastStarted
    /\ (asked.n > 0 /\ IsGetLatest(asked.text) /\ asked.latest # 0) =>
           asked.sent

\* The cache is read by get_latest after broadcasts of both origins started.
C36_BothOrigins ==
    /\ asked.n > 0 /\ IsGetLatest(asked.text) /\ asked.sent
    /\ asked.latest = LastStarted
    /\ tasks[asked.latest].origin = "wifi"
    /\ \E q \in 1..Len(tasks) : Started(q) /\ tasks[q].origin = "cam"

\* The connection of c is closed and c is still in websocket_clients.
ClosedRegistered(c) == conn[c] = "closed" /\ InSeq(websocket_clients, c)

\* No broadcast is left to come: the last one has been made and all have ended.
PublishesOver ==
    /\ Len(tasks) = MaxPub
    /\ \A p \in 1..Len(tasks) : Finished(tasks[p])

\* C37: a registered connection that has closed is eventually out of
\* websocket_clients, as long as broadcasts go on being made.
C37_ClosedEventuallyRemoved ==
    \A c \in Clients :
        ClosedRegistered(c) ~> (~InSeq(websocket_clients, c) \/ PublishesOver)

\* The same when no connection stalls.
C37_RemovedUnlessStalled ==
    \A c \in Clients :
        ClosedRegistered(c) ~>
            \/ ~InSeq(websocket_clients, c)
            \/ PublishesOver
            \/ \E d \in Clients : conn[d] = "stalled"

\* The last pass of the camera loop ended in an exception.
PassRaised == loop.outcome \in {"detect_raised", "publish_raised"}

\* C38: the camera loop never ends; a pass that raises leaves the loop
\* asleep with handoff_start and websocket_clients as they were where it
\* raised, and another pass follows; a pass without a frame changes neither
\* the fusion state nor the broadcasts made, the cached event, the registry
\* or what the clients received.
C38_LoopSurvivesErrors ==
    /\ [](cam_pc \in {"sleep", "publish"})
    /\ [][(loop' # loop /\ PassRaised') =>
              /\ cam_pc' = "sleep"
              /\ handoff_start' = loop'.hs
              /\ websocket_clients' = loop'.clients]_vars
    /\ [][(loop' # loop /\ loop'.outcome = "noframe") =>
              UNCHANGED <<fusionVars, tasks, latest_detection,
                          websocket_clients, inbox>>]_vars
    /\ \A b \in BOOLEAN : (PassRaised /\ loop.tick = b) ~> (loop.tick # b)

\* C38 witness: a pass whose broadcast raised ValueError was followed by a
\* pass that published again, after a pass of the loop without a frame.
C38_Witness ==
    /\ Len(tasks) = 2
    /\ tasks[1].origin = "cam" /\ tasks[1].st = "error"
    /\ tasks[2].origin = "cam"
    /\ loop.outcome = "noframe"
    /\ cam_pc = "sleep"

====
